---- MODULE Spec2Model ----
(***************************************************************************)
(* Model of the Panther-compatible detection engine                        *)
(* (lib/panther-mock/engine.py): the rule registry, load_rule, load_rules, *)
(* run_detection, run, run_matching and DetectionResult.to_dict; and of    *)
(* the rule helpers (lib/panther-mock/helpers.py): deep_get, deep_walk,    *)
(* pattern_match and pattern_match_list.                                   *)
(***************************************************************************)
EXTENDS Integers, Sequences, FiniteSets, TLC

(* ------------------------------ bounds --------------------------------- *)

\* number of distinct events that may be handed to the engine
NumEvents == 2
\* longest event list handed to run
MaxEvents == 2
\* number of distinct rule file stems (the registry cannot grow beyond it)
NumStems == 2

\* nesting depth of the events handed to deep_get
GetDepth == 2
\* longest key path handed to deep_get and deep_walk
MaxPath == 2
\* nesting depth of the events handed to deep_walk
WalkDepth == 3

\* longest text handed to pattern_match and pattern_match_list
MaxText == 2
\* longest pattern list handed to pattern_match_list
MaxPatterns == 2

\* longest run of characters after the leading token of an ARN
MaxArnTail == 6

(* --------------------------- Python values ----------------------------- *)

\* Python values are tagged so that None, "" and False stay distinct.
PyNone == [t |-> "None", v |-> ""]
PyStr(s) == [t |-> "str", v |-> s]
PyBool(b) == [t |-> "bool", v |-> IF b THEN "True" ELSE "False"]
PyList(s) == [t |-> "list", v |-> s]
\* a single event (a dict) handed to run in place of a list of events
PyDict(e) == [t |-> "dict", v |-> e]

\* bool(x) for the values above
Truthy(x) ==
    CASE x.t = "None" -> FALSE
      [] x.t = "bool" -> x.v = "True"
      [] x.t = "str"  -> x.v # ""
      [] x.t = "list" -> x.v # <<>>
      [] OTHER -> TRUE

\* events are opaque to the engine: it only passes them to the callables
Events == 1..NumEvents

(* ------------------------- helpers.py: deep_get ------------------------ *)

\* Nested event data: ints, and dicts with string keys given by a function
\* from the keys to the values (PyList holds the elements of a list).
PyInt(n) == [t |-> "int", v |-> n]
PyMap(f) == [t |-> "dict", v |-> f]

\* dict.get(key) on a dict with string keys: None for a missing key
DictGet(d, key) ==
    IF key.t = "str" /\ key.v \in DOMAIN d.v THEN d.v[key.v] ELSE PyNone

\* list[key] for an int key: indices count from 0, negative ones from the
\* end, anything else raises IndexError
ListIndex(l, key) ==
    LET n == Len(l.v)
    IN  IF key.v >= 0 /\ key.v < n
        THEN [exc |-> "", val |-> l.v[key.v + 1]]
        ELSE IF key.v < 0 /\ key.v >= -n
        THEN [exc |-> "", val |-> l.v[n + key.v + 1]]
        ELSE [exc |-> "IndexError", val |-> PyNone]

\* the body of the loop without the try/except around result[key]
DeepGetStepNoExcept(result, key) ==
    IF result.t = "dict"
    THEN LET r == DictGet(result, key)
         IN  IF r = PyNone THEN [kind |-> "default", val |-> PyNone]
             ELSE [kind |-> "next", val |-> r]
    ELSE IF result.t = "list" /\ key.t = "int"
    THEN LET r == ListIndex(result, key)
         IN  IF r.exc # "" THEN [kind |-> "raise", val |-> PyNone]
             ELSE IF r.val = PyNone THEN [kind |-> "default", val |-> PyNone]
             ELSE [kind |-> "next", val |-> r.val]
    ELSE [kind |-> "default", val |-> PyNone]

\* The body of the loop of deep_get for one key: the next `result`, or
\* `return default`, or an exception leaving the function.
DeepGetStep(result, key) ==
    IF result.t = "dict"
    THEN LET r == DictGet(result, key)
         IN  IF r = PyNone THEN [kind |-> "default", val |-> PyNone]
             ELSE [kind |-> "next", val |-> r]
    ELSE IF result.t = "list" /\ key.t = "int"
    THEN LET r == ListIndex(result, key)
         IN  IF r.exc \in {"IndexError", "TypeError"}
             THEN [kind |-> "default", val |-> PyNone]
             ELSE IF r.exc # "" THEN [kind |-> "raise", val |-> PyNone]
             ELSE IF r.val = PyNone THEN [kind |-> "default", val |-> PyNone]
             ELSE [kind |-> "next", val |-> r.val]
    ELSE [kind |-> "default", val |-> PyNone]

RECURSIVE DeepGetFrom(_, _, _, _)
\* `for key in keys` from the i-th key on, then the final return
DeepGetFrom(result, keys, i, default) ==
    IF i > Len(keys)
    THEN [kind |-> "return",
          val |-> IF result # PyNone THEN result ELSE default]
    ELSE LET st == DeepGetStep(result, keys[i])
         IN  CASE st.kind = "raise" -> [kind |-> "raise", val |-> PyNone]
               [] st.kind = "default" -> [kind |-> "return", val |-> default]
               [] OTHER -> DeepGetFrom(st.val, keys, i + 1, default)

\* deep_get answering default for an empty key path
DeepGetEmptyPathDefault(event, keys, default) ==
    IF keys = <<>> THEN [kind |-> "return", val |-> default]
    ELSE DeepGetFrom(event, keys, 1, default)

\* deep_get(event, *keys, default=default)
DeepGet(event, keys, default) == DeepGetFrom(event, keys, 1, default)

(* --------------------- detections/panther/rules ------------------------ *)

\* String values of an event are sequences of pieces, a piece standing for a
\* run of characters; a string literal is one piece.
Lit(piece) == PyStr(<<piece>>)

\* str(x) inside an f-string
FStr(x) == IF x = PyNone THEN <<"None">> ELSE x.v

\* event.get(key, default): the value held under the key, else default
DictGetDefault(d, key, default) ==
    IF key \in DOMAIN d.v THEN d.v[key] ELSE default

\* deep_get as the rules call it
Get(event, keys, default) ==
    DeepGet(event, [k \in 1..Len(keys) |-> PyStr(keys[k])], default).val

\* aws_root_login.rule with `or` between the two tests
aws_root_login_rule_or(event) ==
    PyBool(\/ DictGetDefault(event, "eventName", PyNone) = Lit("ConsoleLogin")
           \/ Get(event, <<"userIdentity", "type">>, PyNone) = Lit("Root"))

\* aws_root_login.rule
aws_root_login_rule(event) ==
    PyBool(/\ DictGetDefault(event, "eventName", PyNone) = Lit("ConsoleLogin")
           /\ Get(event, <<"userIdentity", "type">>, PyNone) = Lit("Root"))

\* aws_root_login.title
aws_root_login_title(event) ==
    LET source_ip == DictGetDefault(event, "sourceIPAddress", Lit("unknown"))
    IN  PyStr(<<"AWS Root Console Login from ">> \o FStr(source_ip))

\* aws_root_login.severity
aws_root_login_severity(event) ==
    LET mfa_used ==
            Get(event, <<"additionalEventData", "MFAUsed">>, PyNone) = Lit("Yes")
    IN  IF ~mfa_used THEN Lit("HIGH") ELSE Lit("MEDIUM")

\* aws_root_login.alert_context
aws_root_login_alert_context(event) ==
    PyMap([source_ip |-> DictGetDefault(event, "sourceIPAddress", PyNone),
           user_agent |-> DictGetDefault(event, "userAgent", PyNone),
           aws_region |-> DictGetDefault(event, "awsRegion", PyNone),
           mfa_used |-> Get(event, <<"additionalEventData", "MFAUsed">>, PyNone),
           event_time |-> DictGetDefault(event, "eventTime", PyNone),
           console_login |->
               Get(event, <<"responseElements", "ConsoleLogin">>, PyNone)])

\* aws_root_login.dedup
aws_root_login_dedup(event) ==
    PyStr(<<"root_login_">>
          \o FStr(DictGetDefault(event, "sourceIPAddress", Lit("unknown"))))

\* aws_iam_access_key_created.rule
aws_iam_access_key_created_rule(event) ==
    PyBool(/\ DictGetDefault(event, "eventName", PyNone) = Lit("CreateAccessKey")
           /\ DictGetDefault(event, "errorCode", PyNone) = PyNone)

\* aws_iam_access_key_created.title
aws_iam_access_key_created_title(event) ==
    LET actor == Get(event, <<"userIdentity", "arn">>, Lit("unknown"))
        target_user == Get(event, <<"requestParameters", "userName">>, Lit("self"))
    IN  PyStr(<<"IAM Access Key Created for ">> \o FStr(target_user)
              \o <<" by ">> \o FStr(actor))

\* needle in hay, for two strings
Contains(hay, needle) ==
    \E i \in 0..(Len(hay) - Len(needle)) :
        SubSeq(hay, i + 1, i + Len(needle)) = needle

\* aws_iam_access_key_created.severity
aws_iam_access_key_created_severity(event) ==
    LET actor_arn == Get(event, <<"userIdentity", "arn">>, PyStr(<<>>))
        target_user == Get(event, <<"requestParameters", "userName">>, PyNone)
    IN  IF target_user = PyNone \/ target_user.v = <<>> THEN Lit("MEDIUM")
        ELSE IF ~Contains(actor_arn.v, target_user.v) THEN Lit("HIGH")
        ELSE Lit("MEDIUM")

\* aws_iam_access_key_created.alert_context
aws_iam_access_key_created_alert_context(event) ==
    PyMap([actor_arn |-> Get(event, <<"userIdentity", "arn">>, PyNone),
           actor_type |-> Get(event, <<"userIdentity", "type">>, PyNone),
           target_user |-> Get(event, <<"requestParameters", "userName">>, PyNone),
           access_key_id |->
               Get(event, <<"responseElements", "accessKey", "accessKeyId">>,
                   PyNone),
           source_ip |-> DictGetDefault(event, "sourceIPAddress", PyNone),
           user_agent |-> DictGetDefault(event, "userAgent", PyNone),
           event_time |-> DictGetDefault(event, "eventTime", PyNone)])

\* aws_iam_access_key_created.dedup
aws_iam_access_key_created_dedup(event) ==
    PyStr(<<"iam_key_created_">>
          \o FStr(Get(event, <<"requestParameters", "userName">>, Lit("self"))))

\* The functions the rule files define, by module and name.
RuleCode(fname, event) ==
    CASE fname = "aws_root_login.rule" -> aws_root_login_rule(event)
      [] fname = "aws_root_login.title" -> aws_root_login_title(event)
      [] fname = "aws_root_login.severity" -> aws_root_login_severity(event)
      [] fname = "aws_root_login.description" ->
            Lit("The AWS root account was used to log into the AWS Console.")
      [] fname = "aws_root_login.reference" ->
            Lit("https://docs.aws.amazon.com/IAM/latest/UserGuide/id_root-user.html")
      [] fname = "aws_root_login.runbook" ->
            Lit("1. Verify if this login was authorized")
      [] fname = "aws_root_login.alert_context" ->
            aws_root_login_alert_context(event)
      [] fname = "aws_root_login.dedup" -> aws_root_login_dedup(event)
      [] fname = "aws_iam_access_key_created.rule" ->
            aws_iam_access_key_created_rule(event)
      [] fname = "aws_iam_access_key_created.title" ->
            aws_iam_access_key_created_title(event)
      [] fname = "aws_iam_access_key_created.severity" ->
            aws_iam_access_key_created_severity(event)
      [] fname = "aws_iam_access_key_created.description" ->
            Lit("An IAM access key was created.")
      [] fname = "aws_iam_access_key_created.alert_context" ->
            aws_iam_access_key_created_alert_context(event)
      [] fname = "aws_iam_access_key_created.dedup" ->
            aws_iam_access_key_created_dedup(event)

(* ------------------------ rule-supplied callables ---------------------- *)

\* A module attribute that is not defined (getattr(module, name, None)).
Absent == [kind |-> "absent", val |-> PyNone, ev |-> 0]
\* A function that returns val for every event.
Returns(val) == [kind |-> "ret", val |-> val, ev |-> 0]
\* A function that raises an Exception for every event.
Raises == [kind |-> "raise", val |-> PyNone, ev |-> 0]
\* A function that raises on event e and returns val on every other event.
RaisesOn(e, val) == [kind |-> "raiseOn", val |-> val, ev |-> e]
\* A function that returns True on event e and False on every other event.
TrueOn(e) == [kind |-> "trueOn", val |-> PyNone, ev |-> e]
\* A function defined by the code of a rule file.
Def(fname) == [kind |-> "def", val |-> PyStr(fname), ev |-> 0]

NoExc == [type |-> "", msg |-> ""]
RuleExc(name) == [type |-> "KeyError", msg |-> name]

\* Outcome of calling f(event): a returned value or a raised Exception.
\* name is the attribute the function was loaded from.
Call(f, name, event) ==
    CASE f.kind = "ret" -> [exc |-> NoExc, val |-> f.val]
      [] f.kind = "raise" -> [exc |-> RuleExc(name), val |-> PyNone]
      [] f.kind = "raiseOn" ->
            IF event = f.ev THEN [exc |-> RuleExc(name), val |-> PyNone]
            ELSE [exc |-> NoExc, val |-> f.val]
      [] f.kind = "trueOn" -> [exc |-> NoExc, val |-> PyBool(event = f.ev)]
      [] f.kind = "def" -> [exc |-> NoExc, val |-> RuleCode(f.val.v, event)]
      [] OTHER -> [exc |-> [type |-> "TypeError", msg |-> name], val |-> PyNone]

(* ----------------------------- DetectionResult ------------------------- *)

\* DetectionResult.severity declared Optional with default None, like the
\* fields around it
SeverityFieldNone == PyNone

\* a float: the model keeps its text only (0.0 is the dataclass default of
\* execution_time_ms, "elapsed" the time measured by run_detection)
PyFloat(x) == [t |-> "float", v |-> x]

\* dataclass default of DetectionResult.severity
SeverityFieldDefault == PyStr("MEDIUM")

\* DetectionResult(rule_id, rule_file, matched, event) with dataclass defaults
DetectionResult(rule_id, rule_file, matched, event) ==
    [rule_id |-> rule_id, rule_file |-> rule_file, matched |-> matched,
     event |-> event,
     title |-> PyNone, severity |-> SeverityFieldDefault,
     description |-> PyNone, reference |-> PyNone, runbook |-> PyNone,
     alert_context |-> PyNone, dedup_string |-> PyNone, error |-> PyNone,
     execution_time_ms |-> PyFloat("0.0")]

\* to_dict writing "" for a field that is None
ToDictBlankNone(r) ==
    LET blank(x) == IF x = PyNone THEN PyStr("") ELSE x
    IN  [rule_id |-> r.rule_id, rule_file |-> r.rule_file,
         matched |-> r.matched, title |-> blank(r.title),
         severity |-> blank(r.severity),
         description |-> blank(r.description),
         reference |-> blank(r.reference), runbook |-> blank(r.runbook),
         alert_context |-> blank(r.alert_context),
         dedup_string |-> blank(r.dedup_string), error |-> blank(r.error),
         execution_time_ms |-> r.execution_time_ms, event |-> r.event]

\* DetectionResult.to_dict(): the dict of the thirteen fields as they are
ToDict(r) ==
    [rule_id |-> r.rule_id, rule_file |-> r.rule_file,
     matched |-> r.matched, title |-> r.title, severity |-> r.severity,
     description |-> r.description, reference |-> r.reference,
     runbook |-> r.runbook, alert_context |-> r.alert_context,
     dedup_string |-> r.dedup_string, error |-> r.error,
     execution_time_ms |-> r.execution_time_ms, event |-> r.event]

\* a default_severity other than the documented one
default_severity_low == PyStr("LOW")

\* Detection.default_severity
default_severity == PyStr("MEDIUM")

(* ------------------------------- Detection ----------------------------- *)

\* getattr(module, name, default); hasattr(module, name) is m[name] # Absent
GetAttr(m, name, default) == IF m[name] # Absent THEN m[name] ELSE default

\* The Detection that load_rule builds from an executed module: optional
\* functions default to None (Absent), LOG_TYPES and TAGS to [], ENABLED to
\* True.
Detection(rule_id, rule_path, m) ==
    [rule_id |-> rule_id, file_path |-> rule_path,
     rule_func |-> m.rule,
     title_func |-> GetAttr(m, "title", Absent),
     severity_func |-> GetAttr(m, "severity", Absent),
     description_func |-> GetAttr(m, "description", Absent),
     reference_func |-> GetAttr(m, "reference", Absent),
     runbook_func |-> GetAttr(m, "runbook", Absent),
     alert_context_func |-> GetAttr(m, "alert_context", Absent),
     dedup_func |-> GetAttr(m, "dedup", Absent),
     log_types |-> GetAttr(m, "LOG_TYPES", PyList(<<>>)),
     enabled |-> GetAttr(m, "ENABLED", PyBool(TRUE)),
     tags |-> GetAttr(m, "TAGS", PyList(<<>>))]

(* ----------------------------- run_detection --------------------------- *)

\* the metadata statements with severity extracted before title
ExtractorOrderSwapped ==
    << [func |-> "severity_func", attr |-> "severity", field |-> "severity"],
       [func |-> "title_func", attr |-> "title", field |-> "title"],
       [func |-> "description_func", attr |-> "description", field |-> "description"],
       [func |-> "reference_func", attr |-> "reference", field |-> "reference"],
       [func |-> "runbook_func", attr |-> "runbook", field |-> "runbook"],
       [func |-> "alert_context_func", attr |-> "alert_context", field |-> "alert_context"],
       [func |-> "dedup_func", attr |-> "dedup", field |-> "dedup_string"] >>

\* The metadata statements of run_detection's try block, in program order:
\* the Detection field holding the function, the module attribute it came
\* from and the DetectionResult field it is assigned to.
ExtractorOrder ==
    << [func |-> "title_func", attr |-> "title", field |-> "title"],
       [func |-> "severity_func", attr |-> "severity", field |-> "severity"],
       [func |-> "description_func", attr |-> "description", field |-> "description"],
       [func |-> "reference_func", attr |-> "reference", field |-> "reference"],
       [func |-> "runbook_func", attr |-> "runbook", field |-> "runbook"],
       [func |-> "alert_context_func", attr |-> "alert_context", field |-> "alert_context"],
       [func |-> "dedup_func", attr |-> "dedup", field |-> "dedup_string"] >>

\* a metadata statement that calls its function a second time when the
\* first call raised
ExtractStepRetry(st, detection, event, i) ==
    LET x == ExtractorOrder[i]
        f == detection[x.func]
    IN  IF st.exc # NoExc THEN st
        ELSE IF f # Absent
        THEN LET o == Call(f, x.attr, event)
             IN  IF o.exc # NoExc
                 THEN [st EXCEPT !.calls = @ \o <<x.attr, x.attr>>,
                                 !.exc = o.exc]
                 ELSE [st EXCEPT !.calls = Append(@, x.attr),
                                 !.result[x.field] = o.val]
        ELSE IF x.field = "severity"
        THEN [st EXCEPT !.result.severity = default_severity]
        ELSE st

\* a metadata statement that leaves an empty string in its field when its
\* function raises
ExtractStepBlankOnFault(st, detection, event, i) ==
    LET x == ExtractorOrder[i]
        f == detection[x.func]
    IN  IF st.exc # NoExc THEN st
        ELSE IF f # Absent
        THEN LET o == Call(f, x.attr, event)
             IN  IF o.exc # NoExc
                 THEN [st EXCEPT !.calls = Append(@, x.attr), !.exc = o.exc,
                                 !.result[x.field] = PyStr("")]
                 ELSE [st EXCEPT !.calls = Append(@, x.attr),
                                 !.result[x.field] = o.val]
        ELSE IF x.field = "severity"
        THEN [st EXCEPT !.result.severity = default_severity]
        ELSE st

\* One `if detection.X_func: result.X = detection.X_func(event)` statement
\* (with the `else: result.severity = detection.default_severity` branch for
\* severity).  st is the state of the try block: the result so far, the
\* functions invoked so far and the exception in flight, if any.  A raised
\* exception leaves the try block, so a statement after it does not execute.
ExtractStep(st, detection, event, i) ==
    LET Statement(x, f) ==
            LET Assign(o) ==
                    IF o.exc # NoExc
                    THEN [st EXCEPT !.calls = Append(@, x.attr), !.exc = o.exc]
                    ELSE [st EXCEPT !.calls = Append(@, x.attr),
                                    !.result[x.field] = o.val]
            IN  IF st.exc # NoExc THEN st
                ELSE IF f # Absent THEN Assign(Call(f, x.attr, event))
                ELSE IF x.field = "severity"
                THEN [st EXCEPT !.result.severity = default_severity]
                ELSE st
    IN  Statement(ExtractorOrder[i], detection[ExtractorOrder[i].func])

RECURSIVE ExtractFrom(_, _, _, _)
\* statements i..7 of the metadata block, in order
ExtractFrom(st, detection, event, i) ==
    IF i > Len(ExtractorOrder) THEN st
    ELSE ExtractFrom(ExtractStep(st, detection, event, i), detection, event, i + 1)

\* the try block without its `if result.matched:` test: the metadata
\* statements run whatever the rule function returned
TryBlockAlwaysExtract(detection, event) ==
    LET st0 == [result |-> DetectionResult(detection.rule_id,
                                           detection.file_path, FALSE, event),
                calls |-> <<"rule">>, exc |-> NoExc]
        o == Call(detection.rule_func, "rule", event)
    IN  IF o.exc # NoExc THEN [st0 EXCEPT !.exc = o.exc]
        ELSE ExtractFrom([st0 EXCEPT !.result.matched = Truthy(o.val)],
                         detection, event, 1)

\* The try block of run_detection: call the rule function, coerce to bool,
\* and on a match run the metadata statements.
TryBlock(detection, event) ==
    LET st0 == [result |-> DetectionResult(detection.rule_id,
                                           detection.file_path, FALSE, event),
                calls |-> <<"rule">>, exc |-> NoExc]
        Metadata(st1) ==
            IF st1.result.matched
            THEN ExtractFrom(st1, detection, event, 1)
            ELSE st1
        Matched(o) ==
            IF o.exc # NoExc THEN [st0 EXCEPT !.exc = o.exc]
            ELSE Metadata([st0 EXCEPT !.result.matched = Truthy(o.val)])
    IN  Matched(Call(detection.rule_func, "rule", event))

\* f"{type(e).__name__}: {str(e)}\n{traceback.format_exc()}"
ErrorText(e) == PyStr(e.type \o ": " \o e.msg \o "\nTraceback")

\* result.execution_time_ms = (datetime.now() - start_time) in milliseconds
Timed(result) == [result EXCEPT !.execution_time_ms = PyFloat("elapsed")]

\* run_detection without its `except Exception` handler: the exception leaves
\* the call and no result is returned.
RunDetectionNoExcept(detection, event) ==
    LET st == TryBlock(detection, event)
    IN  IF st.exc # NoExc
        THEN [kind |-> "raise", result |-> st.result, calls |-> st.calls,
              exc |-> st.exc]
        ELSE [kind |-> "return", result |-> Timed(st.result),
              calls |-> st.calls, exc |-> NoExc]

\* run_detection with `except Exception: pass`: the fault is swallowed and
\* error stays None.
RunDetectionSwallow(detection, event) ==
    LET st == TryBlock(detection, event)
    IN  [kind |-> "return", result |-> Timed(st.result), calls |-> st.calls,
         exc |-> NoExc]

\* run_detection whose handler also forces matched back to False.
RunDetectionResetOnError(detection, event) ==
    LET st == TryBlock(detection, event)
    IN  [kind |-> "return",
         result |-> Timed(IF st.exc # NoExc
                          THEN [st.result EXCEPT !.error = ErrorText(st.exc),
                                                 !.matched = FALSE]
                          ELSE st.result),
         calls |-> st.calls,
         exc |-> NoExc]

\* DetectionEngine.run_detection(detection, event): the outcome of the call.
\* kind is "return" (result is the returned DetectionResult) or "raise" (exc
\* left the call); calls lists the rule's functions invoked, in order.
RunDetection(detection, event) ==
    LET Handled(st) ==
            [kind |-> "return",
             result |-> Timed(IF st.exc # NoExc
                              THEN [st.result EXCEPT !.error = ErrorText(st.exc)]
                              ELSE st.result),
             calls |-> st.calls,
             exc |-> NoExc]
    IN  Handled(TryBlock(detection, event))

(* ---------------------------------- run -------------------------------- *)

\* x in xs for a Python list
InList(x, xs) == \E k \in 1..Len(xs) : xs[k] = x

RECURSIVE RunFrom(_, _, _, _, _, _)
\* The nested loops of run from event i, unit j on: `for event in events:
\* for rule_id, detection in self.detections.items()`, with the two `continue`
\* tests.  dets is the registry in iteration (insertion) order.  An exception
\* leaving run_detection leaves run.
RunFrom(dets, evs, rule_ids, i, j, results) ==
    IF i > Len(evs) THEN [kind |-> "return", results |-> results]
    ELSE IF j > Len(dets) THEN RunFrom(dets, evs, rule_ids, i + 1, 1, results)
    ELSE IF Truthy(rule_ids) /\ ~InList(dets[j].rule_id, rule_ids.v)
         THEN RunFrom(dets, evs, rule_ids, i, j + 1, results)
    ELSE IF ~Truthy(dets[j].enabled)
         THEN RunFrom(dets, evs, rule_ids, i, j + 1, results)
    ELSE LET Collect(r) ==
                 IF r.kind = "raise" THEN [kind |-> "raise", results |-> results]
                 ELSE RunFrom(dets, evs, rule_ids, i, j + 1,
                              Append(results, r.result))
         IN  Collect(RunDetection(dets[j], evs[i]))

RECURSIVE RunUnitMajorFrom(_, _, _, _, _, _)
\* the loops of run nested the other way round: units outside, events inside
RunUnitMajorFrom(dets, evs, rule_ids, j, i, results) ==
    IF j > Len(dets) THEN [kind |-> "return", results |-> results]
    ELSE IF i > Len(evs)
         THEN RunUnitMajorFrom(dets, evs, rule_ids, j + 1, 1, results)
    ELSE IF Truthy(rule_ids) /\ ~InList(dets[j].rule_id, rule_ids.v)
         THEN RunUnitMajorFrom(dets, evs, rule_ids, j + 1, 1, results)
    ELSE IF ~Truthy(dets[j].enabled)
         THEN RunUnitMajorFrom(dets, evs, rule_ids, j + 1, 1, results)
    ELSE LET r == RunDetection(dets[j], evs[i])
         IN  IF r.kind = "raise" THEN [kind |-> "raise", results |-> results]
             ELSE RunUnitMajorFrom(dets, evs, rule_ids, j, i + 1,
                                   Append(results, r.result))

RunUnitMajor(dets, events, rule_ids) ==
    LET evs == IF events.t = "dict" THEN <<events.v>> ELSE events.v
    IN  RunUnitMajorFrom(dets, evs, rule_ids, 1, 1, <<>>)

\* run leaving out the units that declare no log type
RunTaggedOnly(dets, events, rule_ids) ==
    LET evs == IF events.t = "dict" THEN <<events.v>> ELSE events.v
    IN  RunFrom(SelectSeq(dets, LAMBDA d : d.log_types.v # <<>>), evs,
                rule_ids, 1, 1, <<>>)

\* DetectionEngine.run(events, rule_ids): a single dict is wrapped in a list
Run(dets, events, rule_ids) ==
    LET evs == IF events.t = "dict" THEN <<events.v>> ELSE events.v
    IN  RunFrom(dets, evs, rule_ids, 1, 1, <<>>)

\* an iteration that puts its verdict in front of the results collected so far
RunStepPrepend(dets, r) ==
    IF r.i > Len(r.evs) THEN [r EXCEPT !.pc = "done"]
    ELSE IF r.j > Len(dets) THEN [r EXCEPT !.i = @ + 1, !.j = 1]
    ELSE IF Truthy(r.rule_ids) /\ ~InList(dets[r.j].rule_id, r.rule_ids.v)
         THEN [r EXCEPT !.j = @ + 1]
    ELSE IF ~Truthy(dets[r.j].enabled)
         THEN [r EXCEPT !.j = @ + 1]
    ELSE LET o == RunDetection(dets[r.j], r.evs[r.i])
         IN  IF o.kind = "raise" THEN [r EXCEPT !.pc = "raised"]
             ELSE [r EXCEPT !.j = @ + 1, !.results = <<o.result>> \o @]

\* One turn of the loops of run for the call whose local variables are r: the
\* loop tests at event r.i and unit r.j, and for a unit that is not skipped
\* the run_detection call and results.append.  pc "done" is `return results`.
RunStep(dets, r) ==
    IF r.i > Len(r.evs) THEN [r EXCEPT !.pc = "done"]
    ELSE IF r.j > Len(dets) THEN [r EXCEPT !.i = @ + 1, !.j = 1]
    ELSE IF Truthy(r.rule_ids) /\ ~InList(dets[r.j].rule_id, r.rule_ids.v)
         THEN [r EXCEPT !.j = @ + 1]
    ELSE IF ~Truthy(dets[r.j].enabled)
         THEN [r EXCEPT !.j = @ + 1]
    ELSE LET Collect(o) ==
                 IF o.kind = "raise" THEN [r EXCEPT !.pc = "raised"]
                 ELSE [r EXCEPT !.j = @ + 1, !.results = Append(@, o.result)]
         IN  Collect(RunDetection(dets[r.j], r.evs[r.i]))

(* ------------------------------ run_matching --------------------------- *)

RECURSIVE MatchedOnly(_)
\* the comprehension [r for r in all_results if r.matched]
MatchedOnly(rs) ==
    IF rs = <<>> THEN <<>>
    ELSE IF rs[1].matched THEN <<rs[1]>> \o MatchedOnly(Tail(rs))
    ELSE MatchedOnly(Tail(rs))

\* run_matching filtering on the absence of an error, not on matched
RunMatchingNoError(dets, events, rule_ids) ==
    LET all_results == Run(dets, events, rule_ids)
    IN  IF all_results.kind = "raise" THEN all_results
        ELSE [kind |-> "return",
              results |-> SelectSeq(all_results.results,
                                    LAMBDA r : r.error = PyNone)]

\* DetectionEngine.run_matching(events, rule_ids): run, then keep the matches
RunMatching(dets, events, rule_ids) ==
    LET Matching(all_results) ==
            IF all_results.kind = "raise" THEN all_results
            ELSE [kind |-> "return",
                  results |-> MatchedOnly(all_results.results)]
    IN  Matching(Run(dets, events, rule_ids))

(* -------------------------------- load_rule ---------------------------- *)

\* dict.setdefault in place of the assignment: an existing key keeps its value
DictSetKeepFirst(dets, detection) ==
    IF \E k \in 1..Len(dets) : dets[k].rule_id = detection.rule_id
    THEN dets
    ELSE Append(dets, detection)

\* the assignment on a dict that moves an existing key to the end: the entry
\* is deleted and inserted again
DictSetMoveToEnd(dets, detection) ==
    Append(SelectSeq(dets, LAMBDA d : d.rule_id # detection.rule_id), detection)

\* self.detections[rule_id] = detection on an insertion-ordered dict: an
\* existing key keeps its position, a new key goes last.
DictSet(dets, detection) ==
    IF \E k \in 1..Len(dets) : dets[k].rule_id = detection.rule_id
    THEN [k \in 1..Len(dets) |->
            IF dets[k].rule_id = detection.rule_id THEN detection ELSE dets[k]]
    ELSE Append(dets, detection)

\* A rule path: Path(rule_path).stem is the rule id.
RulePath(dir, stem) == [dir |-> dir, stem |-> stem]

\* What load_rule finds at a path: whether the file exists, whether importlib
\* has a loader for it (spec and spec.loader are not None), whether executing
\* it raises, and the module it executes to.
Missing ==
    [exists |-> FALSE, loader |-> FALSE, exec_fault |-> FALSE, module |-> <<>>]
NoLoader ==
    [exists |-> TRUE, loader |-> FALSE, exec_fault |-> FALSE, module |-> <<>>]
Broken ==
    [exists |-> TRUE, loader |-> TRUE, exec_fault |-> TRUE, module |-> <<>>]
Source(m) ==
    [exists |-> TRUE, loader |-> TRUE, exec_fault |-> FALSE, module |-> m]

\* load_rule without the hasattr(module, "rule") test: module.rule raises
LoadRuleOutcomeNoContract(dets, rule_path, file) ==
    IF ~file.exists
    THEN [kind |-> "raise", exc |-> "FileNotFoundError", dets |-> dets]
    ELSE IF ~file.loader
    THEN [kind |-> "raise", exc |-> "ImportError", dets |-> dets]
    ELSE IF file.exec_fault
    THEN [kind |-> "raise", exc |-> "ImportError", dets |-> dets]
    ELSE IF file.module.rule = Absent
    THEN [kind |-> "raise", exc |-> "AttributeError", dets |-> dets]
    ELSE LET d == Detection(rule_path.stem, rule_path, file.module)
         IN  [kind |-> "return", exc |-> "", dets |-> DictSet(dets, d)]

\* load_rule dropping the unit registered under the id when the source that
\* is loaded under it executes but defines no `rule`
LoadRuleOutcomeEvict(dets, rule_path, file) ==
    IF ~file.exists
    THEN [kind |-> "raise", exc |-> "FileNotFoundError", dets |-> dets]
    ELSE IF ~file.loader
    THEN [kind |-> "raise", exc |-> "ImportError", dets |-> dets]
    ELSE IF file.exec_fault
    THEN [kind |-> "raise", exc |-> "ImportError", dets |-> dets]
    ELSE IF file.module.rule = Absent
    THEN [kind |-> "raise", exc |-> "ValueError",
          dets |-> SelectSeq(dets, LAMBDA d : d.rule_id # rule_path.stem)]
    ELSE LET d == Detection(rule_path.stem, rule_path, file.module)
         IN  [kind |-> "return", exc |-> "", dets |-> DictSet(dets, d)]

\* DetectionEngine.load_rule(rule_path) when the file system holds `file` at
\* rule_path: the exception raised or the normal return (of the Detection
\* stored under its id), and the registry after the call.
LoadRuleOutcome(dets, rule_path, file) ==
    IF ~file.exists
    THEN [kind |-> "raise", exc |-> "FileNotFoundError", dets |-> dets]
    ELSE IF ~file.loader
    THEN [kind |-> "raise", exc |-> "ImportError", dets |-> dets]
    ELSE IF file.exec_fault
    THEN [kind |-> "raise", exc |-> "ImportError", dets |-> dets]
    ELSE IF file.module.rule = Absent
    THEN [kind |-> "raise", exc |-> "ValueError", dets |-> dets]
    ELSE LET d == Detection(rule_path.stem, rule_path, file.module)
         IN  [kind |-> "return", exc |-> "", dets |-> DictSet(dets, d)]

(* -------------------------------- load_rules --------------------------- *)

\* An entry of a directory: the file name is name + suffix, and `file` is what
\* load_rule finds there.
DirEntry(name, suffix, file) == [name |-> name, suffix |-> suffix, file |-> file]

\* The file names of the model that start with an underscore.
PrivateNames == {"__init__"}

\* rule_file.name.startswith("_")
StartsWithUnderscore(name) == name \in PrivateNames

\* rules_dir.glob("*.py"), in the order the file system lists the entries
Glob(listing) == SelectSeq(listing, LAMBDA f : f.suffix = ".py")

RECURSIVE LoadRulesFrom(_, _, _, _, _, _)
\* The loop of load_rules from the i-th globbed file on: files whose name
\* starts with an underscore are skipped, a load_rule that raises is
\* reported by a warning, a loaded Detection is appended to `loaded`.
LoadRulesFrom(dets, dir, files, i, loaded, reported) ==
    IF i > Len(files)
    THEN [kind |-> "return", exc |-> "", dets |-> dets, loaded |-> loaded,
          reported |-> reported]
    ELSE IF StartsWithUnderscore(files[i].name)
    THEN LoadRulesFrom(dets, dir, files, i + 1, loaded, reported)
    ELSE LET o == LoadRuleOutcome(dets, RulePath(dir, files[i].name),
                                  files[i].file)
         IN  IF o.kind = "raise"
             THEN LoadRulesFrom(dets, dir, files, i + 1, loaded,
                                Append(reported, files[i].name))
             ELSE LET k == CHOOSE k \in 1..Len(o.dets) :
                               o.dets[k].rule_id = files[i].name
                  IN  LoadRulesFrom(o.dets, dir, files, i + 1,
                                    Append(loaded, o.dets[k]), reported)

\* load_rules without the try/except around load_rule: the first file that
\* fails to load ends the batch with its exception
LoadRulesNoCatch(dets, dir) ==
    IF ~dir.exists
    THEN [kind |-> "raise", exc |-> "FileNotFoundError", dets |-> dets,
          loaded |-> <<>>, reported |-> <<>>]
    ELSE LET files == Glob(dir.listing)
             bad == {i \in 1..Len(files) :
                        /\ ~StartsWithUnderscore(files[i].name)
                        /\ LoadRuleOutcome(<<>>, RulePath(dir.path, files[i].name),
                                           files[i].file).kind = "raise"}
         IN  IF bad = {}
             THEN LoadRulesFrom(dets, dir.path, files, 1, <<>>, <<>>)
             ELSE LET first == CHOOSE i \in bad : \A j \in bad : i <= j
                      r == LoadRulesFrom(dets, dir.path,
                                         SubSeq(files, 1, first - 1), 1,
                                         <<>>, <<>>)
                  IN  [r EXCEPT !.kind = "raise", !.exc = "Exception"]

\* DetectionEngine.load_rules(rules_dir): the exception raised or the list of
\* loaded Detections returned, the files reported by a warning, and the
\* registry after the call.
LoadRules(dets, dir) ==
    IF ~dir.exists
    THEN [kind |-> "raise", exc |-> "FileNotFoundError", dets |-> dets,
          loaded |-> <<>>, reported |-> <<>>]
    ELSE LoadRulesFrom(dets, dir.path, Glob(dir.listing), 1, <<>>, <<>>)

(* ------------------------------ rule sources --------------------------- *)

ModuleAttrs ==
    {"rule", "title", "severity", "description", "reference", "runbook",
     "alert_context", "dedup", "LOG_TYPES", "ENABLED", "TAGS"}

\* a module defining the attributes in DOMAIN defs
Module(defs) ==
    [a \in ModuleAttrs |-> IF a \in DOMAIN defs THEN defs[a] ELSE Absent]

StemNames == <<"aws_root_login", "aws_iam_access_key_created",
               "sysmon_suspicious_process", "rule_d", "rule_e">>
Stems == {StemNames[i] : i \in 1..NumStems}

\* The rule files the engine is pointed at: one per stem in the rules
\* directory, and a second file with the first stem in another directory.
RulePaths ==
    {RulePath("rules", st) : st \in Stems} \cup {RulePath("alt", StemNames[1])}

\* Rule modules of the registry specification: an always-matching rule
\* whose title extractor faults on the last event, an event-dependent rule,
\* a rule whose predicate faults on event 1, a disabled rule, and a module
\* without the required rule function.
RuleModules ==
    { Module([rule |-> Returns(PyBool(TRUE)),
              title |-> RaisesOn(NumEvents, PyStr("t")),
              dedup |-> Returns(PyStr("d")),
              LOG_TYPES |-> PyList(<<"AWS.CloudTrail">>)]),
      Module([rule |-> TrueOn(1), severity |-> Returns(PyStr("HIGH"))]),
      Module([rule |-> RaisesOn(1, PyBool(TRUE))]),
      Module([rule |-> Returns(PyBool(TRUE))] @@ ("ENABLED" :> PyBool(FALSE))),
      Module([title |-> Returns(PyStr("t"))]) }

RuleFiles == {Missing, NoLoader, Broken} \cup {Source(m) : m \in RuleModules}

\* Rule modules of the evaluation specification: every combination of a
\* predicate and the seven extractors, each absent, returning or raising.
EvalRuleFuncs ==
    {Returns(PyBool(TRUE)), Returns(PyBool(FALSE)), Returns(PyNone),
     Returns(PyStr("x")), Raises, RaisesOn(1, PyBool(TRUE))}
EvalExtractors(val) == {Absent, Returns(val), Raises}
EvalSeverities ==
    EvalExtractors(PyStr("HIGH")) \cup {Returns(PyStr("")), Returns(PyNone)}
EvalModules ==
    { Module([rule |-> r, title |-> t, severity |-> s, description |-> d,
              reference |-> rf, runbook |-> rb, alert_context |-> ac,
              dedup |-> dd]) :
        r \in EvalRuleFuncs, t \in EvalExtractors(PyStr("t")),
        s \in EvalSeverities, d \in EvalExtractors(PyStr("d")),
        rf \in EvalExtractors(PyStr("ref")), rb \in EvalExtractors(PyStr("rb")),
        ac \in EvalExtractors(PyList(<<"ctx">>)),
        dd \in EvalExtractors(PyStr("dd")) }

\* the inputs of run
RECURSIVE SeqsUpTo(_, _)
SeqsUpTo(S, n) ==
    IF n = 0 THEN {<<>>}
    ELSE LET shorter == SeqsUpTo(S, n - 1)
         IN  shorter \cup {Append(q, x) : q \in shorter, x \in S}

EventInputs ==
    {PyDict(e) : e \in Events} \cup {PyList(q) : q \in SeqsUpTo(Events, MaxEvents)}
\* rule_ids: None, or a list naming any set of stems (run only tests
\* membership in it)
FilterInputs ==
    {PyNone} \cup
    {PyList(SelectSeq(SubSeq(StemNames, 1, NumStems), LAMBDA st : st \in S)) :
        S \in SUBSET Stems}

\* the rule modules found in a rules directory: two that define `rule` and
\* one that does not
DirModules ==
    { Module([rule |-> Returns(PyBool(TRUE)), title |-> Returns(PyStr("t"))]),
      Module([rule |-> TrueOn(1), severity |-> Returns(PyStr("HIGH"))]),
      Module([title |-> Returns(PyStr("t"))]) }

\* what load_rule finds at a globbed *.py file: a file that has vanished since
\* the glob (or a dangling link), one that raises when executed, or a module
DirFiles == {Missing, Broken} \cup {Source(m) : m \in DirModules}

\* the orders in which the file system may list any of the rule stems
Arrangements ==
    {a \in SeqsUpTo(Stems, NumStems) :
        \A j, k \in 1..Len(a) : a[j] = a[k] => j = k}

\* entries of a rules directory that are no candidates: a well-formed module
\* in a file whose name starts with an underscore, and a file that is not *.py
DirExtras ==
    { <<>>,
      << DirEntry("__init__", ".py",
                  Source(Module([rule |-> Returns(PyBool(TRUE))]))),
         DirEntry("README", ".md", NoLoader) >> }

\* the directory listings: extras, then rule files in any order
Listings ==
    UNION { { extras \o [k \in 1..Len(a) |-> DirEntry(a[k], ".py", c[k])] :
                c \in [1..Len(a) -> DirFiles], extras \in DirExtras } :
            a \in Arrangements }

\* rules_dir of load_rules: a missing directory, or one with a listing
DirInputs ==
    { [exists |-> FALSE, path |-> "rules", listing |-> <<>>] } \cup
    { [exists |-> TRUE, path |-> "rules", listing |-> l] : l \in Listings }

(* ------------------------- helpers.py: deep_walk ----------------------- *)

\* the order in which the dicts of the model hold their keys
KeyOrder == <<"records", "id">>

\* list(obj.keys())
Keys(d) ==
    LET held == SelectSeq(KeyOrder, LAMBDA k : k \in DOMAIN d.v)
    IN  [n \in 1..Len(held) |-> PyStr(held[n])]

\* key in obj, for a dict with string keys
KeyIn(key, d) == key.t = "str" /\ key.v \in DOMAIN d.v

RECURSIVE Walk(_, _, _, _)
RECURSIVE WalkItems(_, _, _, _, _)

\* the loop over a list that returns with the first item's results
WalkItemsFirstOnly(items, k, keys, i, return_val) ==
    IF k > Len(items) THEN <<>>
    ELSE Walk(items[k], keys, i, return_val)

\* `for item in obj: results.extend(_walk(item, remaining_keys))` from the
\* k-th item on
WalkItems(items, k, keys, i, return_val) ==
    IF k > Len(items) THEN <<>>
    ELSE Walk(items[k], keys, i, return_val)
             \o WalkItems(items, k + 1, keys, i, return_val)

\* _walk(obj, remaining_keys), the remaining keys being keys[i..]
Walk(obj, keys, i, return_val) ==
    IF i > Len(keys)
    THEN IF return_val = "key"
         THEN IF obj.t = "dict" THEN Keys(obj) ELSE <<>>
         ELSE IF obj # PyNone THEN <<obj>> ELSE <<>>
    ELSE IF obj.t = "dict"
    THEN IF KeyIn(keys[i], obj)
         THEN Walk(obj.v[keys[i].v], keys, i + 1, return_val)
         ELSE <<>>
    ELSE IF obj.t = "list"
    THEN WalkItems(obj.v, 1, keys, i, return_val)
    ELSE <<>>

\* deep_walk always returning the aggregate, whatever the default
DeepWalkNoDefault(event, keys, default, return_val) ==
    [kind |-> "return", val |-> PyList(Walk(event, keys, 1, return_val))]

\* deep_walk(event, *keys, default=default, return_val=return_val)
DeepWalk(event, keys, default, return_val) ==
    LET results == Walk(event, keys, 1, return_val)
    IN  [kind |-> "return",
         val |-> IF results # <<>> THEN PyList(results)
                 ELSE IF default # PyNone THEN default
                 ELSE PyList(<<>>)]

(* ----------------------- helpers.py: pattern_match --------------------- *)

\* Texts and patterns are sequences of one-character strings.
DigitChars == <<"0", "1", "2", "3", "4", "5", "6", "7", "8", "9">>

\* str(string) for a str and for an int from 0 to 9
Str(x) == IF x.t = "int" THEN <<DigitChars[x.v + 1]>> ELSE x.v

\* os.path.normcase on POSIX leaves the characters as they are
Normcase(chars) == chars

RECURSIVE MatchFrom(_, _, _, _)
\* Does pat[j..] match the whole of name[i..]?  `*` matches any run of
\* characters, `?` any one character, any other character itself.  (The
\* patterns of the model hold no `[`.)
MatchFrom(name, i, pat, j) ==
    IF j > Len(pat) THEN i > Len(name)
    ELSE IF pat[j] = "*"
    THEN \E k \in i..(Len(name) + 1) : MatchFrom(name, k, pat, j + 1)
    ELSE IF pat[j] = "?"
    THEN i <= Len(name) /\ MatchFrom(name, i + 1, pat, j + 1)
    ELSE i <= Len(name) /\ name[i] = pat[j]
            /\ MatchFrom(name, i + 1, pat, j + 1)

\* fnmatch.fnmatch(name, pat)
Fnmatch(name, pat) == MatchFrom(Normcase(name), 1, Normcase(pat), 1)

\* pattern_match(string, pattern)
PatternMatch(string, pattern) ==
    IF string = PyNone THEN FALSE ELSE Fnmatch(Str(string), pattern)

\* pattern_match_list with all() in place of any()
PatternMatchListAll(string, patterns) ==
    IF string = PyNone THEN FALSE
    ELSE \A k \in 1..Len(patterns) : PatternMatch(string, patterns[k])

\* pattern_match_list(string, patterns)
PatternMatchList(string, patterns) ==
    IF string = PyNone THEN FALSE
    ELSE \E k \in 1..Len(patterns) : PatternMatch(string, patterns[k])

(* ----------------------- helpers.py: aws_arn_parse --------------------- *)

\* arn.startswith(prefix)
StartsWith(chars, prefix) ==
    Len(chars) >= Len(prefix) /\ SubSeq(chars, 1, Len(prefix)) = prefix

RECURSIVE SplitFrom(_, _, _, _, _)
\* str.split(sep, maxsplit) from position i on: `part` is the part being
\* read, and at most `left` more separators split
SplitFrom(chars, sep, left, i, part) ==
    IF i > Len(chars) THEN <<part>>
    ELSE IF chars[i] = sep /\ left > 0
    THEN <<part>> \o SplitFrom(chars, sep, left - 1, i + 1, <<>>)
    ELSE SplitFrom(chars, sep, left, i + 1, Append(part, chars[i]))

\* chars.split(sep, maxsplit)
Split(chars, sep, maxsplit) == SplitFrom(chars, sep, maxsplit, 1, <<>>)

\* the dict aws_arn_parse builds from the parts
ArnFields(parts) ==
    PyMap([partition |-> parts[2], service |-> parts[3], region |-> parts[4],
           account |-> parts[5], resource |-> parts[6]])

\* aws_arn_parse splitting at every colon: arn.split(":")
AwsArnParseSplitAll(arn) ==
    IF arn = PyNone \/ arn.v = <<>> \/ ~StartsWith(arn.v, <<"a", "r", "n", ":">>)
    THEN PyNone
    ELSE LET parts == Split(arn.v, ":", Len(arn.v))
         IN  IF Len(parts) < 6 THEN PyNone ELSE ArnFields(parts)

\* aws_arn_parse(arn)
AwsArnParse(arn) ==
    IF arn = PyNone \/ arn.v = <<>> \/ ~StartsWith(arn.v, <<"a", "r", "n", ":">>)
    THEN PyNone
    ELSE LET parts == Split(arn.v, ":", 5)
         IN  IF Len(parts) < 6 THEN PyNone ELSE ArnFields(parts)

(* --------------------------- helper inputs ----------------------------- *)

\* leaves of an event: null, and falsy and truthy scalars
Scalars == {PyNone, PyInt(0), PyInt(1), PyStr(""), PyBool(FALSE)}

\* a second element for the two-element lists
Sibling == PyMap("id" :> PyInt(2))

RECURSIVE Values(_)
\* Event data nested up to d levels: a value one level shallower under the
\* key "records" or "id", or as the only or the first element of a list.
Values(d) ==
    IF d = 0 THEN Scalars
    ELSE LET inner == Values(d - 1)
         IN  Scalars
             \cup {PyMap(<<>>), PyList(<<>>),
                   PyMap(("id" :> PyInt(1)) @@ ("records" :> PyNone))}
             \cup {PyMap("records" :> x) : x \in inner}
             \cup {PyMap("id" :> x) : x \in inner}
             \cup {PyList(<<x>>) : x \in inner}
             \cup {PyList(<<x, Sibling>>) : x \in inner}

\* keys of a deep_get path: dict keys and list indices, among them an index
\* past the end of every list and a negative one
GetKeys == {PyStr("records"), PyStr("id"), PyInt(0), PyInt(-1), PyInt(2)}

\* the default argument: unspecified (None) or given
Defaults == {PyNone, PyStr("dflt")}

\* keys of a deep_walk path: dict keys, and an int, which no dict holds
WalkKeys == {PyStr("records"), PyStr("id"), PyInt(0)}

\* return_val of deep_walk
ReturnVals == {"value", "key"}

\* how an identifier handed to aws_arn_parse begins: with the scheme token,
\* or with something that is not quite it
ArnHeads ==
    { <<"a", "r", "n", ":">>, <<"a", "r", "n">>, <<"A", "r", "n", ":">>,
      <<"x", "a", "r", "n", ":">>, <<":">>, <<>> }

\* arn of aws_arn_parse: None, or a head followed by colons and letters
ArnInputs ==
    {PyNone} \cup
    {PyStr(h \o q) : h \in ArnHeads, q \in SeqsUpTo({":", "x"}, MaxArnTail)}

\* the characters of the texts: two lower-case letters and an upper-case one
TextChars == {"a", "b", "A"}

\* string of pattern_match: None, an int, or a str
Texts ==
    {PyNone, PyInt(1)} \cup {PyStr(q) : q \in SeqsUpTo(TextChars, MaxText)}

\* patterns: literal, with `?`, with `*` in front, behind and around, empty
Patterns ==
    { <<>>, <<"a">>, <<"A">>, <<"?">>, <<"*">>, <<"a", "?">>, <<"?", "?">>,
      <<"a", "*">>, <<"*", "b">>, <<"*", "a", "*">> }

(* -------------------------- the rule files ----------------------------- *)

\* rules/aws_root_login.py
RootLoginModule ==
    Module([rule |-> Def("aws_root_login.rule"),
            title |-> Def("aws_root_login.title"),
            severity |-> Def("aws_root_login.severity"),
            description |-> Def("aws_root_login.description"),
            reference |-> Def("aws_root_login.reference"),
            runbook |-> Def("aws_root_login.runbook"),
            alert_context |-> Def("aws_root_login.alert_context"),
            dedup |-> Def("aws_root_login.dedup"),
            LOG_TYPES |-> PyList(<<"AWS.CloudTrail">>),
            TAGS |-> PyList(<<"AWS", "Initial Access", "T1078">>)]
           @@ ("ENABLED" :> PyBool(TRUE)))

\* rules/aws_iam_access_key_created.py
AccessKeyModule ==
    Module([rule |-> Def("aws_iam_access_key_created.rule"),
            title |-> Def("aws_iam_access_key_created.title"),
            severity |-> Def("aws_iam_access_key_created.severity"),
            description |-> Def("aws_iam_access_key_created.description"),
            alert_context |-> Def("aws_iam_access_key_created.alert_context"),
            dedup |-> Def("aws_iam_access_key_created.dedup"),
            LOG_TYPES |-> PyList(<<"AWS.CloudTrail">>),
            TAGS |-> PyList(<<"AWS", "Persistence", "Credential Access",
                              "T1098">>)]
           @@ ("ENABLED" :> PyBool(TRUE)))

\* the rule files of the repository, by stem
RepoRules ==
    ("aws_root_login" :> RootLoginModule)
        @@ ("aws_iam_access_key_created" :> AccessKeyModule)

\* a key that an event does not hold
NoKey == [t |-> "nokey", v |-> ""]

\* the dict holding the entries of a record whose value is not NoKey
DictOf(entries) ==
    PyMap([k \in {x \in DOMAIN entries : entries[x] # NoKey} |-> entries[k]])

\* ARNs of IAM users: the account part, then the user name
AdminArn == PyStr(<<"arn:aws:iam::123456789012:user/", "admin">>)
AdministratorArn ==
    PyStr(<<"arn:aws:iam::123456789012:user/", "admin", "istrator">>)

\* CloudTrail events: every combination of the fields the two AWS rules read
CloudTrailEvents ==
    { DictOf([eventName |-> name, userIdentity |-> identity,
              sourceIPAddress |-> ip, additionalEventData |-> extra,
              errorCode |-> code, requestParameters |-> params]) :
        name \in {NoKey, Lit("ConsoleLogin"), Lit("CreateAccessKey"),
                  Lit("DescribeInstances")},
        identity \in {NoKey, Lit("Root"),
                      PyMap([type |-> Lit("Root")]),
                      PyMap([type |-> Lit("IAMUser")]),
                      PyMap([type |-> Lit("IAMUser"), arn |-> AdminArn]),
                      PyMap([type |-> Lit("IAMUser"), arn |-> AdministratorArn])},
        ip \in {NoKey, Lit("203.0.113.50")},
        extra \in {NoKey, PyMap(<<>>), PyMap([MFAUsed |-> Lit("Yes")]),
                   PyMap([MFAUsed |-> Lit("No")])},
        code \in {NoKey, PyNone, Lit("AccessDenied")},
        params \in {NoKey, PyMap(<<>>), PyMap([userName |-> PyStr(<<>>)]),
                    PyMap([userName |-> PyStr(<<"admin">>)]),
                    PyMap([userName |-> PyStr(<<"admin", "istrator">>)]),
                    PyMap([userName |-> Lit("other-user")])} }

(* ------------------------------- schemas.py ---------------------------- *)

\* a member of the LogType enum; a member is not equal to a str, its value
\* included
LogTypeMember(name) == [t |-> "LogType", v |-> name]

\* the members of LogType with their values
LogTypeValues ==
    [AWS_CLOUDTRAIL |-> "AWS.CloudTrail", AWS_GUARDDUTY |-> "AWS.GuardDuty",
     AWS_S3_SERVER_ACCESS |-> "AWS.S3ServerAccess",
     AWS_VPC_FLOW |-> "AWS.VPCFlow", AWS_ALB |-> "AWS.ALB",
     OKTA_SYSTEM_LOG |-> "Okta.SystemLog", GITHUB_AUDIT |-> "GitHub.Audit",
     GCP_AUDIT |-> "GCP.AuditLog", SYSMON |-> "Custom.Sysmon",
     OSQUERY |-> "Custom.Osquery", AUDITD |-> "Custom.Auditd",
     CUSTOM_JSON |-> "Custom.JSON"]

LogType == {LogTypeMember(name) : name \in DOMAIN LogTypeValues}

\* SchemaField(name, type, required, description)
SchemaField(name, type, required, description) ==
    [name |-> name, type |-> type, required |-> required,
     description |-> description]

\* SchemaField(name, type) and SchemaField(name, type, True)
Optional(name, type) == SchemaField(name, type, FALSE, "")
Required(name, type) == SchemaField(name, type, TRUE, "")

\* LogSchema: fields is the dict of SchemaFields in insertion order (each
\* under its name), required_fields a set of names
LogSchema(log_type, description, fields, required_fields, timestamp_field) ==
    [log_type |-> log_type, description |-> description, fields |-> fields,
     required_fields |-> required_fields, timestamp_field |-> timestamp_field]

\* type(value).__name__
TypeName(value) ==
    CASE value.t = "None" -> "NoneType"
      [] value.t = "LogType" -> "LogType"
      [] OTHER -> value.t

\* isinstance(value, expected) for the classes of type_map; bool is a subclass
\* of int
IsInstance(value, expected) ==
    CASE expected = "str" -> value.t = "str"
      [] expected = "int" -> value.t \in {"int", "bool"}
      [] expected = "int, float" -> value.t \in {"int", "bool", "float"}
      [] expected = "bool" -> value.t = "bool"
      [] expected = "dict" -> value.t = "dict"
      [] expected = "list" -> value.t = "list"

\* the type_map of _check_type
type_map ==
    [string |-> "str", int |-> "int", float |-> "int, float", bool |-> "bool",
     object |-> "dict", array |-> "list", timestamp |-> "str"]

\* LogSchema._check_type(value, expected_type)
CheckType(value, expected_type) ==
    IF value = PyNone THEN TRUE
    ELSE IF expected_type \notin DOMAIN type_map THEN TRUE
    ELSE IsInstance(value, type_map[expected_type])

\* f"Missing required field: {field_name}"
MissingError(field_name) == <<"Missing required field: ", field_name>>

\* f"Field '{field_name}' has wrong type. Expected {type}, got {typename}"
WrongTypeError(field_name, type, value) ==
    <<"Field '", field_name, "' has wrong type. Expected ", type, ", got ",
      TypeName(value)>>

\* the orders in which a set can be iterated
Orders(S) ==
    {q \in [1..Cardinality(S) -> S] :
        \A a, b \in 1..Cardinality(S) : a # b => q[a] # q[b]}

\* validate reporting the missing required fields only
ValidateRequiredOnly(schema, event, order) ==
    LET missing == SelectSeq(order, LAMBDA name : name \notin DOMAIN event)
    IN  [n \in 1..Len(missing) |-> MissingError(missing[n])]

\* LogSchema.validate(event): a message for each required field that is
\* missing, then one for each field of the schema that the event holds with
\* a value of the wrong type.  event is a dict with string keys; order is the
\* order in which the set required_fields is iterated.
Validate(schema, event, order) ==
    LET missing == SelectSeq(order, LAMBDA name : name \notin DOMAIN event)
        wrong == SelectSeq(schema.fields,
                           LAMBDA f : /\ f.name \in DOMAIN event
                                      /\ ~CheckType(event[f.name], f.type))
    IN  [n \in 1..Len(missing) |-> MissingError(missing[n])] \o
        [n \in 1..Len(wrong) |->
            WrongTypeError(wrong[n].name, wrong[n].type, event[wrong[n].name])]

\* a schema dict entry
Entry(key, schema) == [key |-> key, schema |-> schema]

\* _init_schemas(): the built-in entries of SCHEMAS, keyed by LogType members
BuiltinSchemas ==
    << Entry(LogTypeMember("AWS_CLOUDTRAIL"),
         LogSchema(LogTypeMember("AWS_CLOUDTRAIL"), "AWS CloudTrail audit logs",
           << Required("eventVersion", "string"),
              Required("eventSource", "string"),
              Required("eventName", "string"),
              Required("eventTime", "timestamp"),
              Optional("awsRegion", "string"),
              Optional("sourceIPAddress", "string"),
              Optional("userAgent", "string"),
              Optional("userIdentity", "object"),
              Optional("requestParameters", "object"),
              Optional("responseElements", "object"),
              Optional("errorCode", "string"),
              Optional("errorMessage", "string") >>,
           {"eventVersion", "eventSource", "eventName"}, "eventTime")),
       Entry(LogTypeMember("AWS_GUARDDUTY"),
         LogSchema(LogTypeMember("AWS_GUARDDUTY"),
           "AWS GuardDuty security findings",
           << Required("detail-type", "string"), Required("source", "string"),
              Optional("time", "timestamp"), Optional("detail", "object"),
              Optional("account", "string"), Optional("region", "string") >>,
           {"detail-type", "source"}, "time")),
       Entry(LogTypeMember("OKTA_SYSTEM_LOG"),
         LogSchema(LogTypeMember("OKTA_SYSTEM_LOG"), "Okta System Log events",
           << Required("eventType", "string"), Required("actor", "object"),
              Optional("published", "timestamp"),
              Optional("severity", "string"),
              Optional("displayMessage", "string"),
              Optional("outcome", "object"), Optional("target", "array"),
              Optional("client", "object"),
              Optional("authenticationContext", "object") >>,
           {"eventType", "actor"}, "published")),
       Entry(LogTypeMember("GITHUB_AUDIT"),
         LogSchema(LogTypeMember("GITHUB_AUDIT"), "GitHub Audit log events",
           << Required("action", "string"), Optional("@timestamp", "timestamp"),
              Optional("actor", "string"), Optional("actor_ip", "string"),
              Optional("org", "string"), Optional("repo", "string"),
              Optional("user", "string") >>,
           {"action"}, "@timestamp")),
       Entry(LogTypeMember("SYSMON"),
         LogSchema(LogTypeMember("SYSMON"), "Windows Sysmon events",
           << Required("EventID", "int"), Optional("UtcTime", "timestamp"),
              Optional("ProcessId", "int"), Optional("Image", "string"),
              Optional("CommandLine", "string"),
              Optional("CurrentDirectory", "string"),
              Optional("User", "string"), Optional("ParentProcessId", "int"),
              Optional("ParentImage", "string"),
              Optional("ParentCommandLine", "string"),
              Optional("TargetFilename", "string"),
              Optional("DestinationIp", "string"),
              Optional("DestinationPort", "int") >>,
           {"EventID"}, "UtcTime")),
       Entry(LogTypeMember("OSQUERY"),
         LogSchema(LogTypeMember("OSQUERY"), "osquery scheduled query results",
           << Required("name", "string"),
              Optional("hostIdentifier", "string"),
              Optional("unixTime", "int"), Optional("calendarTime", "string"),
              Optional("columns", "object"), Optional("action", "string") >>,
           {"name"}, "unixTime")) >>

\* SCHEMAS.get(key): the schema stored under key, or None
SchemasGet(schemas, key) ==
    IF \E k \in 1..Len(schemas) : schemas[k].key = key
    THEN schemas[CHOOSE k \in 1..Len(schemas) : schemas[k].key = key].schema
    ELSE PyNone

\* SCHEMAS[key] = schema: a key already held keeps its place
SchemasSet(schemas, key, schema) ==
    IF \E k \in 1..Len(schemas) : schemas[k].key = key
    THEN [k \in 1..Len(schemas) |->
            IF schemas[k].key = key THEN Entry(key, schema) ELSE schemas[k]]
    ELSE Append(schemas, Entry(key, schema))

\* get_schema(log_type)
get_schema(schemas, log_type) == SchemasGet(schemas, log_type)

\* validate_event(event, log_type): order is the iteration order of the
\* schema's required_fields
validate_event(schemas, event, log_type, order) ==
    LET schema == get_schema(schemas, log_type)
    IN  IF schema = PyNone THEN <<>> ELSE Validate(schema, event, order)

\* field_def.get(key, default) on a field definition
FieldDefGet(field_def, key, default) ==
    IF key \in DOMAIN field_def THEN field_def[key] ELSE default

\* the LogSchema that add_custom_schema builds: fields is the dict of field
\* definitions in insertion order, required_fields None or a list of names
CustomSchema(description, fields, required_fields, timestamp_field) ==
    LogSchema(LogTypeMember("CUSTOM_JSON"), description,
              [n \in 1..Len(fields) |->
                  SchemaField(fields[n].name,
                              FieldDefGet(fields[n].def, "type", "string"),
                              FieldDefGet(fields[n].def, "required", FALSE),
                              FieldDefGet(fields[n].def, "description", ""))],
              IF Truthy(required_fields)
              THEN {required_fields.v[n] : n \in 1..Len(required_fields.v)}
              ELSE {},
              timestamp_field)

\* add_custom_schema(log_type_name, description, fields, required_fields,
\* timestamp_field): the schema is stored under the str log_type_name and
\* LogType.CUSTOM_JSON is returned
add_custom_schema(schemas, log_type_name, description, fields, required_fields, timestamp_field) ==
    [schemas |-> SchemasSet(schemas, PyStr(log_type_name),
                            CustomSchema(description, fields, required_fields,
                                         timestamp_field)),
     ret |-> LogTypeMember("CUSTOM_JSON")]

\* inputs of the schema functions
FieldDef(name, def) == [name |-> name, def |-> def]
CustomNames == {"Custom.MyApp", "Custom.JSON"}
CustomFields ==
    { <<>>,
      <<FieldDef("user", [type |-> "string"] @@ [required |-> TRUE]),
        FieldDef("n", [type |-> "int"])>>,
      <<FieldDef("user", <<>>), FieldDef("n", [type |-> "uuid"])>> }
CustomRequired == {PyNone, PyList(<<"user">>), PyList(<<"user", "n">>)}
SchemaEventValues == {PyStr("x"), PyInt(1), PyBool(TRUE), PyNone}
SchemaEvents ==
    UNION { [names -> SchemaEventValues] : names \in SUBSET {"user", "n"} }
LogTypeInputs == LogType \cup {PyStr(name) : name \in CustomNames}

(* --------------------------------- state ------------------------------- *)

VARIABLES
    detections,       \* self.detections, in insertion order
    custom_schemas,   \* the entries stored in SCHEMAS since the module was
                      \* loaded, in insertion order
    call              \* the call made and its outcome, until the caller has
                      \* taken it

vars == <<detections, custom_schemas, call>>

\* the module-level dict SCHEMAS: the built-in entries, then the stored ones
SCHEMAS == BuiltinSchemas \o custom_schemas

\* DetectionEngine(): an empty registry; schemas.py loaded: SCHEMAS holds the
\* built-in schemas
Init ==
    /\ detections = <<>>
    /\ custom_schemas = <<>>
    /\ call = [op |-> "idle"]

\* The engine is single-threaded: a call is made when the previous one is over.
Idle == call.op = "idle"

\* engine.load_rule(rule_path)
LoadRule ==
    /\ Idle
    /\ UNCHANGED custom_schemas
    /\ \E rule_path \in RulePaths, file \in RuleFiles :
        LET o == LoadRuleOutcome(detections, rule_path, file)
        IN  /\ detections' = o.dets
            /\ call' = [op |-> "load_rule", rule_path |-> rule_path,
                        file |-> file, before |-> detections,
                        out |-> [kind |-> o.kind, exc |-> o.exc]]

\* engine.run_detection(detection, event) on a loaded detection
RunDetectionCall ==
    /\ Idle
    /\ \E k \in 1..Len(detections), event \in Events :
        /\ call' = [op |-> "run_detection", detection |-> detections[k],
                    event |-> event,
                    out |-> RunDetection(detections[k], event)]
        /\ UNCHANGED <<detections, custom_schemas>>

\* engine.run(events, rule_ids)
RunCall ==
    /\ Idle
    /\ \E events \in EventInputs, rule_ids \in FilterInputs :
        /\ call' = [op |-> "run", events |-> events, rule_ids |-> rule_ids,
                    out |-> Run(detections, events, rule_ids)]
        /\ UNCHANGED <<detections, custom_schemas>>

\* the caller takes the outcome of the call
Return ==
    /\ ~Idle
    /\ call' = [op |-> "idle"]
    /\ UNCHANGED <<detections, custom_schemas>>

Next == LoadRule \/ RunDetectionCall \/ RunCall \/ Return

Spec == Init /\ [][Next]_vars

\* The evaluation specification: one rule is loaded from any of EvalModules
\* and run_detection is called on it.
EvalLoadRule ==
    /\ Idle
    /\ UNCHANGED custom_schemas
    /\ detections = <<>>
    /\ \E m \in EvalModules :
        LET rule_path == RulePath("rules", StemNames[1])
            o == LoadRuleOutcome(detections, rule_path, Source(m))
        IN  /\ detections' = o.dets
            /\ call' = [op |-> "load_rule", rule_path |-> rule_path,
                        file |-> Source(m), before |-> detections,
                        out |-> [kind |-> o.kind, exc |-> o.exc]]

\* result.to_dict() on the verdict run_detection has just returned
ToDictCall ==
    /\ call.op = "run_detection"
    /\ call.out.kind = "return"
    /\ call' = [op |-> "to_dict", detection |-> call.detection,
                verdict |-> call.out.result,
                out |-> ToDict(call.out.result)]
    /\ UNCHANGED <<detections, custom_schemas>>

EvalNext == EvalLoadRule \/ RunDetectionCall \/ ToDictCall \/ Return

SpecEval == Init /\ [][EvalNext]_vars

\* rule_ids of run_matching, which hands it on to run: None, an empty list
\* and a list naming one rule
MatchFilterInputs == {PyNone, PyList(<<>>), PyList(<<StemNames[1]>>)}

\* The matching specification: rules are loaded and run_matching is called.
RunMatchingCall ==
    /\ Idle
    /\ \E events \in EventInputs, rule_ids \in MatchFilterInputs :
            /\ call' = [op |-> "run_matching", events |-> events,
                        rule_ids |-> rule_ids,
                        out |-> RunMatching(detections, events, rule_ids)]
            /\ UNCHANGED <<detections, custom_schemas>>

MatchNext == LoadRule \/ RunMatchingCall \/ Return

SpecMatch == Init /\ [][MatchNext]_vars

\* The log-type specification: rules with and without LOG_TYPES are loaded,
\* and run is called with no filter, an empty one and one naming a rule.
TagRunCall ==
    /\ Idle
    /\ \E events \in EventInputs, rule_ids \in MatchFilterInputs :
        /\ call' = [op |-> "run", events |-> events, rule_ids |-> rule_ids,
                    out |-> Run(detections, events, rule_ids)]
        /\ UNCHANGED <<detections, custom_schemas>>

TagNext == LoadRule \/ TagRunCall \/ RunDetectionCall \/ Return

SpecTags == Init /\ [][TagNext]_vars

\* The step specification: run_detection is followed statement by statement
\* on one loaded rule.  call.phase is the position in the evaluation of the
\* (event, unit) pair, call.st the state of the try block and call.next the
\* metadata statement to execute next.
StepModules ==
    { Module([rule |-> r, title |-> t, severity |-> s,
              description |-> Returns(PyStr("d")), runbook |-> Raises,
              alert_context |-> ac, dedup |-> dd]) :
        r \in EvalRuleFuncs, t \in EvalExtractors(PyStr("t")),
        s \in EvalSeverities, ac \in EvalExtractors(PyList(<<"ctx">>)),
        dd \in EvalExtractors(PyStr("dd")) }

StepLoadRule ==
    /\ Idle
    /\ UNCHANGED custom_schemas
    /\ detections = <<>>
    /\ \E m \in StepModules :
        LET rule_path == RulePath("rules", StemNames[1])
            o == LoadRuleOutcome(detections, rule_path, Source(m))
        IN  /\ detections' = o.dets
            /\ call' = [op |-> "load_rule", rule_path |-> rule_path,
                        file |-> Source(m), before |-> detections,
                        out |-> [kind |-> o.kind, exc |-> o.exc]]

\* load_rule hands its outcome to the caller
StepLoaded ==
    /\ call.op = "load_rule"
    /\ call' = [op |-> "idle"]
    /\ UNCHANGED <<detections, custom_schemas>>

\* run_detection is entered: start_time is taken and result initialised
StepEnter ==
    /\ Idle
    /\ \E k \in 1..Len(detections), event \in Events :
        call' = [op |-> "evaluation", phase |-> "pending",
                 detection |-> detections[k], event |-> event,
                 st |-> [result |-> DetectionResult(detections[k].rule_id,
                                        detections[k].file_path, FALSE, event),
                         calls |-> <<>>, exc |-> NoExc],
                 next |-> 1]
    /\ UNCHANGED <<detections, custom_schemas>>

\* matched = detection.rule_func(event); result.matched = bool(matched)
StepPredicate ==
    /\ call.op = "evaluation"
    /\ call.phase = "pending"
    /\ LET o == Call(call.detection.rule_func, "rule", call.event)
           st1 == [call.st EXCEPT !.calls = Append(@, "rule")]
       IN  call' = [call EXCEPT
                       !.phase = "predicate-evaluated",
                       !.st = IF o.exc # NoExc THEN [st1 EXCEPT !.exc = o.exc]
                              ELSE [st1 EXCEPT !.result.matched = Truthy(o.val)]]
    /\ UNCHANGED <<detections, custom_schemas>>

\* the next metadata statement inside `if result.matched:`; the block is left
\* after its last statement or by the exception a statement raised
StepExtract ==
    /\ call.op = "evaluation"
    /\ call.phase = "predicate-evaluated"
    /\ call.st.exc = NoExc
    /\ call.st.result.matched
    /\ LET st1 == ExtractStep(call.st, call.detection, call.event, call.next)
           left == st1.exc # NoExc \/ call.next = Len(ExtractorOrder)
       IN  call' = [call EXCEPT
                       !.st = st1, !.next = @ + 1,
                       !.phase = IF left THEN "extractors-evaluated" ELSE @]
    /\ UNCHANGED <<detections, custom_schemas>>

\* the except handler if an exception is in flight, the execution time, and
\* `return result`
StepEmit ==
    /\ call.op = "evaluation"
    /\ \/ call.phase = "extractors-evaluated"
       \/ /\ call.phase = "predicate-evaluated"
          /\ call.st.exc # NoExc \/ ~call.st.result.matched
    /\ call' = [call EXCEPT
                   !.phase = "verdict-emitted",
                   !.st.result = Timed(IF call.st.exc # NoExc
                                       THEN [@ EXCEPT !.error = ErrorText(call.st.exc)]
                                       ELSE @)]
    /\ UNCHANGED <<detections, custom_schemas>>

\* the caller takes the returned verdict
StepReturn ==
    /\ call.op = "evaluation"
    /\ call.phase = "verdict-emitted"
    /\ call' = [op |-> "idle"]
    /\ UNCHANGED <<detections, custom_schemas>>

StepNext ==
    \/ StepLoadRule \/ StepLoaded \/ StepEnter \/ StepPredicate
    \/ StepExtract \/ StepEmit \/ StepReturn

SpecSteps == Init /\ [][StepNext]_vars

\* run_detection is straight-line code: once entered, each of its statements
\* is executed when control reaches it (the rule's functions return or raise)
SpecStepsFair ==
    /\ Init /\ [][StepNext]_vars
    /\ WF_vars(StepPredicate) /\ WF_vars(StepExtract) /\ WF_vars(StepEmit)

\* The concurrent specification: the registry is loaded in full, and then the
\* callers' run calls are interleaved turn by turn of their loops.  The
\* callers share self.detections; events, rule_ids, the loop positions and
\* results are local to each call.
Callers == {"c1", "c2"}

\* rule modules of the concurrent specification: a rule whose title
\* extractor faults on the last event, an event-dependent rule and a
\* disabled rule
ConcModules ==
    { Module([rule |-> Returns(PyBool(TRUE)),
              title |-> RaisesOn(NumEvents, PyStr("t"))]),
      Module([rule |-> TrueOn(1), severity |-> Returns(PyStr("HIGH"))]),
      Module([rule |-> Returns(PyBool(TRUE))] @@ ("ENABLED" :> PyBool(FALSE))) }

\* events of a concurrent run call: one event as a dict, or the events of a
\* set in ascending order
ConcEventInputs ==
    {PyDict(e) : e \in Events} \cup
    {PyList(SelectSeq([n \in 1..NumEvents |-> n], LAMBDA e : e \in S)) :
        S \in SUBSET Events}

\* rule_ids of a concurrent run call: no filter, or a list naming one rule
ConcFilterInputs == {PyNone, PyList(<<StemNames[1]>>)}

\* a caller that is not inside run
NotCalling == [pc |-> "out"]

\* the rule files are loaded one after the other, before any run call
ConcLoadRule ==
    /\ Idle
    /\ UNCHANGED custom_schemas
    /\ Len(detections) < NumStems
    /\ \E m \in ConcModules :
        detections' =
            LoadRuleOutcome(detections,
                            RulePath("rules", StemNames[Len(detections) + 1]),
                            Source(m)).dets
    /\ UNCHANGED call

\* caller c enters run(events, rule_ids): results = [] and the events are
\* wrapped in a list if a single dict was given
ConcEnter(c) ==
    /\ Len(detections) = NumStems
    /\ \/ Idle
       \/ call.op = "concurrent" /\ call.runs[c] = NotCalling
    /\ \E events \in ConcEventInputs, rule_ids \in ConcFilterInputs :
        LET r == [pc |-> "loop", events |-> events, rule_ids |-> rule_ids,
                  evs |-> IF events.t = "dict" THEN <<events.v>> ELSE events.v,
                  i |-> 1, j |-> 1, results |-> <<>>]
            runs == IF Idle THEN [d \in Callers |-> NotCalling] ELSE call.runs
        IN  call' = [op |-> "concurrent", runs |-> [runs EXCEPT ![c] = r]]
    /\ UNCHANGED <<detections, custom_schemas>>

\* caller c takes one turn of its loops
ConcStep(c) ==
    /\ call.op = "concurrent"
    /\ call.runs[c].pc = "loop"
    /\ call' = [call EXCEPT !.runs[c] = RunStep(detections, @)]
    /\ UNCHANGED <<detections, custom_schemas>>

\* caller c takes what its run call returned
ConcReturn(c) ==
    /\ call.op = "concurrent"
    /\ call.runs[c].pc \in {"done", "raised"}
    /\ LET runs == [call.runs EXCEPT ![c] = NotCalling]
       IN  call' = IF \A d \in Callers : runs[d] = NotCalling
                   THEN [op |-> "idle"]
                   ELSE [call EXCEPT !.runs = runs]
    /\ UNCHANGED <<detections, custom_schemas>>

ConcNext ==
    \/ ConcLoadRule
    \/ \E c \in Callers : ConcEnter(c) \/ ConcStep(c) \/ ConcReturn(c)

SpecConc == Init /\ [][ConcNext]_vars

\* The schema specification: custom schemas are added, and schemas are looked
\* up and events validated by log type.
AddCustomSchemaCall ==
    /\ Idle
    /\ \E log_type_name \in CustomNames, fields \in CustomFields,
          required_fields \in CustomRequired :
        LET o == add_custom_schema(SCHEMAS, log_type_name, "d", fields,
                                   required_fields, "timestamp")
        IN  /\ custom_schemas' =
                    SubSeq(o.schemas, Len(BuiltinSchemas) + 1, Len(o.schemas))
            /\ call' = [op |-> "add_custom_schema",
                        log_type_name |-> log_type_name,
                        schema |-> CustomSchema("d", fields, required_fields,
                                                "timestamp"),
                        out |-> o.ret]
    /\ UNCHANGED detections

GetSchemaCall ==
    /\ Idle
    /\ \E log_type \in LogTypeInputs :
        call' = [op |-> "get_schema", log_type |-> log_type,
                 out |-> get_schema(SCHEMAS, log_type)]
    /\ UNCHANGED <<detections, custom_schemas>>

ValidateEventCall ==
    /\ Idle
    /\ \E event \in SchemaEvents, log_type \in LogTypeInputs :
        LET schema == get_schema(SCHEMAS, log_type)
            required == IF schema = PyNone THEN {} ELSE schema.required_fields
        IN  \E order \in Orders(required) :
                call' = [op |-> "validate_event", event |-> event,
                         log_type |-> log_type,
                         out |-> validate_event(SCHEMAS, event, log_type, order)]
    /\ UNCHANGED <<detections, custom_schemas>>

SchemaNext ==
    AddCustomSchemaCall \/ GetSchemaCall \/ ValidateEventCall \/ Return

SpecSchemas == Init /\ [][SchemaNext]_vars

\* The batch-loading specification: directories are loaded with load_rules.
LoadRulesCall ==
    /\ Idle
    /\ UNCHANGED custom_schemas
    /\ \E dir \in DirInputs :
        LET o == LoadRules(detections, dir)
        IN  /\ detections' = o.dets
            /\ call' = [op |-> "load_rules", dir |-> dir,
                        before |-> detections,
                        out |-> [kind |-> o.kind, exc |-> o.exc,
                                 loaded |-> o.loaded,
                                 reported |-> o.reported]]

LoadNext == LoadRulesCall \/ Return

SpecLoad == Init /\ [][LoadNext]_vars

\* The deep_get specification: deep_get is called on nested events.
DeepGetCall ==
    /\ Idle
    /\ \E event \in Values(GetDepth), keys \in SeqsUpTo(GetKeys, MaxPath),
          default \in Defaults :
            call' = [op |-> "deep_get", event |-> event, keys |-> keys,
                     default |-> default,
                     out |-> DeepGet(event, keys, default)]
    /\ UNCHANGED <<detections, custom_schemas>>

GetNext == DeepGetCall \/ Return

SpecGet == Init /\ [][GetNext]_vars

\* The deep_walk specification: deep_walk is called on nested events.
DeepWalkCall ==
    /\ Idle
    /\ \E event \in Values(WalkDepth), keys \in SeqsUpTo(WalkKeys, MaxPath),
          default \in Defaults, return_val \in ReturnVals :
            call' = [op |-> "deep_walk", event |-> event, keys |-> keys,
                     default |-> default, return_val |-> return_val,
                     out |-> DeepWalk(event, keys, default, return_val)]
    /\ UNCHANGED <<detections, custom_schemas>>

WalkNext == DeepWalkCall \/ Return

SpecWalk == Init /\ [][WalkNext]_vars

\* The pattern specification: pattern_match and pattern_match_list are
\* called.
PatternMatchCall ==
    /\ Idle
    /\ \E string \in Texts, pattern \in Patterns :
            call' = [op |-> "pattern_match", string |-> string,
                     pattern |-> pattern,
                     out |-> PatternMatch(string, pattern)]
    /\ UNCHANGED <<detections, custom_schemas>>

PatternMatchListCall ==
    /\ Idle
    /\ \E string \in Texts, patterns \in SeqsUpTo(Patterns, MaxPatterns) :
            call' = [op |-> "pattern_match_list", string |-> string,
                     patterns |-> patterns,
                     out |-> PatternMatchList(string, patterns)]
    /\ UNCHANGED <<detections, custom_schemas>>

PatternNext == PatternMatchCall \/ PatternMatchListCall \/ Return

SpecPattern == Init /\ [][PatternNext]_vars

\* The ARN specification: aws_arn_parse is called.
AwsArnParseCall ==
    /\ Idle
    /\ \E arn \in ArnInputs :
            call' = [op |-> "aws_arn_parse", arn |-> arn,
                     out |-> AwsArnParse(arn)]
    /\ UNCHANGED <<detections, custom_schemas>>

ArnNext == AwsArnParseCall \/ Return

SpecArn == Init /\ [][ArnNext]_vars

\* The rules specification: the AWS rule files of the repository are loaded
\* and run on CloudTrail events.
RepoLoadRule ==
    /\ Idle
    /\ UNCHANGED custom_schemas
    /\ \E stem \in DOMAIN RepoRules :
        LET rule_path == RulePath("rules", stem)
            file == Source(RepoRules[stem])
            o == LoadRuleOutcome(detections, rule_path, file)
        IN  /\ detections' = o.dets
            /\ call' = [op |-> "load_rule", rule_path |-> rule_path,
                        file |-> file, before |-> detections,
                        out |-> [kind |-> o.kind, exc |-> o.exc]]

RepoRunDetection ==
    /\ Idle
    /\ \E k \in 1..Len(detections), event \in CloudTrailEvents :
            /\ call' = [op |-> "run_detection", detection |-> detections[k],
                        event |-> event,
                        out |-> RunDetection(detections[k], event)]
            /\ UNCHANGED <<detections, custom_schemas>>

RulesNext == RepoLoadRule \/ RepoRunDetection \/ Return

SpecRules == Init /\ [][RulesNext]_vars

(* ======================= properties of run_detection =================== *)

\* the call under observation is a run_detection call
IsEval == call.op = "run_detection"

\* the verdict of the run_detection call under observation
Verdict == call.out.result

\* the extractor names, in the documented order
ClaimOrder ==
    <<"title", "severity", "description", "reference", "runbook",
      "alert_context", "dedup">>

\* the Detection field and the DetectionResult field of extractor `name`
FuncField(name) == name \o "_func"
ResultField(name) == IF name = "dedup" THEN "dedup_string" ELSE name

\* what the rule's predicate / extractor `name` does on the call's event
PredicateOutcome == Call(call.detection.rule_func, "rule", call.event)
Defined(name) == call.detection[FuncField(name)] # Absent
ExtractorOutcome(name) ==
    Call(call.detection[FuncField(name)], name, call.event)
Faults(name) == Defined(name) /\ ExtractorOutcome(name).exc # NoExc

PredicateFaults == PredicateOutcome.exc # NoExc
PredicateMatches == ~PredicateFaults /\ Truthy(PredicateOutcome.val)

\* position i of ClaimOrder is the first extractor that faults
FirstFault(i) ==
    /\ Faults(ClaimOrder[i])
    /\ \A j \in 1..(i - 1) : ~Faults(ClaimOrder[j])

NonEmptyStr(x) == x.t = "str" /\ x.v # ""

\* every optional metadata field of verdict r holds its initial value
MetadataUnset(r) ==
    /\ r.title = PyNone
    /\ r.severity = PyStr("MEDIUM")
    /\ r.description = PyNone
    /\ r.reference = PyNone
    /\ r.runbook = PyNone
    /\ r.alert_context = PyNone
    /\ r.dedup_string = PyNone

\* C1: run_detection returns exactly one DetectionResult for every unit and
\* event; no fault of the predicate or of an extractor leaves the call, it is
\* recorded in the verdict's error field.
C1_NeverRaises ==
    IsEval =>
        /\ call.out.kind = "return"
        /\ call.out.exc = NoExc
        /\ Verdict.rule_id = call.detection.rule_id
        /\ Verdict.event = call.event
        /\ (PredicateFaults \/ (PredicateMatches /\ \E i \in 1..7 : FirstFault(i)))
              => NonEmptyStr(Verdict.error)

\* C1 witness: a call whose predicate raised, and which returned
C1_Witness ==
    IsEval /\ PredicateFaults /\ call.out.kind = "return"

\* C2: when the predicate raises, the verdict has matched = false and a
\* non-empty error, no extractor is invoked and no metadata field is
\* populated.
C2_PredicateFault ==
    (IsEval /\ PredicateFaults) =>
        /\ call.out.kind = "return"
        /\ Verdict.matched = FALSE
        /\ NonEmptyStr(Verdict.error)
        /\ call.out.calls = <<"rule">>
        /\ MetadataUnset(Verdict)

\* C2 witness: the predicate raised on a unit that defines every extractor
C2_Witness ==
    /\ IsEval
    /\ PredicateFaults
    /\ \A i \in 1..7 : Defined(ClaimOrder[i])
    /\ Verdict.error # PyNone

\* C3: in every verdict with matched = false every optional metadata field
\* holds its initial value (None, and "MEDIUM" for severity).
C3_UnmatchedUnset ==
    (IsEval /\ call.out.kind = "return" /\ Verdict.matched = FALSE)
        => MetadataUnset(Verdict)

\* C3 witness: the predicate returned a falsy value on a unit whose
\* extractors are all defined and would all return a value
C3_Witness ==
    /\ IsEval
    /\ ~PredicateFaults
    /\ ~Truthy(PredicateOutcome.val)
    /\ \A i \in 1..7 : Defined(ClaimOrder[i]) /\ ~Faults(ClaimOrder[i])
    /\ Verdict.matched = FALSE

\* C4: when the predicate matches and an extractor raises, the fault is
\* recorded in error, matched stays true and every field populated by an
\* earlier extractor keeps the value that extractor returned.
C4_ExtractorFault ==
    \A i \in 1..7 :
        (IsEval /\ PredicateMatches /\ FirstFault(i)) =>
            /\ call.out.kind = "return"
            /\ NonEmptyStr(Verdict.error)
            /\ Verdict.matched = TRUE
            /\ \A j \in 1..(i - 1) :
                 Defined(ClaimOrder[j]) =>
                    Verdict[ResultField(ClaimOrder[j])]
                        = ExtractorOutcome(ClaimOrder[j]).val

\* C4 witness: the last extractor raised after the six before it returned
C4_Witness ==
    /\ IsEval
    /\ PredicateMatches
    /\ FirstFault(7)
    /\ \A j \in 1..6 : Defined(ClaimOrder[j])
    /\ Verdict.title = PyStr("t")

\* the extractors the unit defines among the first n of ClaimOrder
DefinedUpTo(n) == SelectSeq(SubSeq(ClaimOrder, 1, n), Defined)

\* the position of the first extractor that faults, 7 when none does
LastInvoked ==
    IF \E i \in 1..7 : FirstFault(i)
    THEN CHOOSE i \in 1..7 : FirstFault(i)
    ELSE 7

\* the value field `name` has in a fresh DetectionResult
InitialValue(name) == IF name = "severity" THEN PyStr("MEDIUM") ELSE PyNone

\* C5 as claimed: when the predicate matches, every extractor the unit
\* defines is invoked exactly once, in the fixed order, and a fault in one
\* does not keep the later ones from being invoked and populating their
\* fields.
C5_AllExtractorsInvoked ==
    (IsEval /\ PredicateMatches) =>
        /\ call.out.calls = <<"rule">> \o DefinedUpTo(7)
        /\ \A i \in 1..7 :
             (Defined(ClaimOrder[i]) /\ ~Faults(ClaimOrder[i])) =>
                Verdict[ResultField(ClaimOrder[i])]
                    = ExtractorOutcome(ClaimOrder[i]).val

\* C5 amended: when the predicate matches, the extractors the unit defines
\* are invoked in the fixed order, each once, up to and including the first
\* one that faults; each one before it populates its field; no extractor
\* after the faulting one is invoked and its field keeps its initial value.
C5_InvokedUpToFirstFault ==
    (IsEval /\ PredicateMatches) =>
        /\ call.out.calls = <<"rule">> \o DefinedUpTo(LastInvoked)
        /\ \A i \in 1..LastInvoked :
             (Defined(ClaimOrder[i]) /\ ~Faults(ClaimOrder[i])) =>
                Verdict[ResultField(ClaimOrder[i])]
                    = ExtractorOutcome(ClaimOrder[i]).val
        /\ \A i \in (LastInvoked + 1)..7 :
             Verdict[ResultField(ClaimOrder[i])] = InitialValue(ClaimOrder[i])

\* C5 witness: the title extractor raised and the unit defines the six
\* extractors after it, none of which was invoked
C5_Witness ==
    /\ IsEval
    /\ PredicateMatches
    /\ FirstFault(1)
    /\ \A i \in 2..7 : Defined(ClaimOrder[i]) /\ ~Faults(ClaimOrder[i])
    /\ call.out.calls = <<"rule", "title">>

\* the call matched and no extractor faulted
MatchedNoFault ==
    IsEval /\ call.out.kind = "return" /\ Verdict.matched = TRUE
           /\ Verdict.error = PyNone

\* C6 as claimed: in every verdict with matched = true and no extractor
\* fault, severity is a non-empty string whatever the severity extractor
\* returns.
C6_SeverityNonEmpty ==
    MatchedNoFault => NonEmptyStr(Verdict.severity)

\* C6 amended: in every verdict with matched = true and no extractor fault,
\* severity is "MEDIUM" when the unit defines no severity extractor and is
\* otherwise the value the severity extractor returned, unchanged.
C6_SeverityAsReturned ==
    MatchedNoFault =>
        Verdict.severity =
            IF Defined("severity") THEN ExtractorOutcome("severity").val
            ELSE PyStr("MEDIUM")

\* C6 witness: the severity extractor returned the empty string and the
\* verdict carries it
C6_Witness ==
    /\ MatchedNoFault
    /\ Defined("severity")
    /\ ExtractorOutcome("severity").val = PyStr("")
    /\ Verdict.severity = PyStr("")

\* C6 witness of the default: no severity extractor and no fault
C6_DefaultWitness ==
    MatchedNoFault /\ ~Defined("severity") /\ Verdict.severity = PyStr("MEDIUM")

\* C7: when the predicate matches and the unit defines no severity
\* extractor, or its severity extractor raises, severity is "MEDIUM".
C7_SeverityDefault ==
    (IsEval /\ PredicateMatches /\ (~Defined("severity") \/ Faults("severity")))
        => Verdict.severity = PyStr("MEDIUM")

\* C7 witness: the severity extractor was invoked and raised
C7_Witness ==
    /\ IsEval
    /\ PredicateMatches
    /\ FirstFault(2)
    /\ call.out.calls[Len(call.out.calls)] = "severity"
    /\ Verdict.severity = PyStr("MEDIUM")

(* ============================ properties of run ======================== *)

\* the call under observation is a run call
IsRun == call.op = "run"

\* the events of the run call: the list given, or the single event given
RunEvents == IF call.events.t = "dict" THEN <<call.events.v>> ELSE call.events.v

\* the verdicts the run call returned
RunResults == call.out.results

UnitEnabled(d) == d.enabled = PyBool(TRUE)
EnabledUnits == {j \in 1..Len(detections) : UnitEnabled(detections[j])}

\* how often event e occurs in the events given
Occurrences(e) == Cardinality({i \in 1..Len(RunEvents) : RunEvents[i] = e})

\* the number of verdicts returned for event e and the unit with id `id`
VerdictsFor(e, id) ==
    Cardinality({k \in 1..Len(RunResults) :
                    RunResults[k].event = e /\ RunResults[k].rule_id = id})

\* C8: without a rule_ids filter, run returns exactly one verdict for every
\* pair of an event and a registered, enabled unit and none for a disabled
\* unit, |events| x |enabled units| in all, also when units fault.
C8_OneVerdictPerPair ==
    (IsRun /\ call.rule_ids = PyNone) =>
        /\ call.out.kind = "return"
        /\ Len(RunResults) = Len(RunEvents) * Cardinality(EnabledUnits)
        /\ \A e \in Events, j \in EnabledUnits :
             VerdictsFor(e, detections[j].rule_id) = Occurrences(e)
        /\ \A k \in 1..Len(RunResults) :
             \E j \in EnabledUnits :
                RunResults[k].rule_id = detections[j].rule_id

\* C8 witness: two events run over two enabled units, one of them with a
\* faulting predicate, give four verdicts
C8_Witness ==
    /\ IsRun
    /\ call.rule_ids = PyNone
    /\ Len(RunEvents) = 2
    /\ Cardinality(EnabledUnits) = 2
    /\ Len(RunResults) = 4
    /\ \E k \in 1..4 :
         RunResults[k].error # PyNone /\ RunResults[k].matched = FALSE

\* the position of the unit with id `id` in the registry's iteration order
RegistryIndex(id) ==
    CHOOSE j \in 1..Len(detections) : detections[j].rule_id = id

\* C9: run returns the verdicts event-major, then in registry insertion
\* order: all verdicts of the first event come first, then those of the
\* second, and within one event the verdicts follow the order of the units
\* in the registry.
C9_EventMajorOrder ==
    IsRun =>
        LET n == Len(RunEvents)
            total == Len(RunResults)
        IN  IF n = 0 THEN total = 0
            ELSE /\ total % n = 0
                 /\ LET m == total \div n
                    IN  \A k \in 1..total :
                          /\ RunResults[k].event = RunEvents[((k - 1) \div m) + 1]
                          /\ (k % m # 0) =>
                               RegistryIndex(RunResults[k].rule_id)
                                 < RegistryIndex(RunResults[k + 1].rule_id)

\* C9 witness: events [e1, e2] over units [A, B] gave (e1,A),(e1,B),(e2,A),(e2,B)
C9_Witness ==
    /\ IsRun
    /\ Len(detections) = 2
    /\ call.events.t = "list"
    /\ Len(RunEvents) = 2
    /\ RunEvents[1] # RunEvents[2]
    /\ Len(RunResults) = 4
    /\ \A i \in 1..2, j \in 1..2 :
         /\ RunResults[2 * (i - 1) + j].event = RunEvents[i]
         /\ RunResults[2 * (i - 1) + j].rule_id = detections[j].rule_id

\* the verdicts honour the list `ids` as a filter: every verdict is for an id
\* in ids, and every enabled unit with an id in ids has a verdict per event
FilterHonoured(ids) ==
    /\ \A k \in 1..Len(RunResults) : InList(RunResults[k].rule_id, ids)
    /\ \A e \in Events, j \in EnabledUnits :
         InList(detections[j].rule_id, ids) =>
            VerdictsFor(e, detections[j].rule_id) = Occurrences(e)

\* C10: when a rule_ids list is supplied to run, the empty list included,
\* every verdict's rule_id is in rule_ids and every enabled unit whose id is
\* in rule_ids gets one verdict per event.
C10_FilterApplied ==
    (IsRun /\ call.rule_ids.t = "list") =>
        /\ call.out.kind = "return"
        /\ FilterHonoured(call.rule_ids.v)

\* The filter is honoured for every non-empty rule_ids list.
NonEmptyFilterApplied ==
    (IsRun /\ call.rule_ids.t = "list" /\ call.rule_ids.v # <<>>) =>
        /\ call.out.kind = "return"
        /\ FilterHonoured(call.rule_ids.v)

(* ======================== properties of run_matching =================== *)

\* the call under observation is a run_matching call
IsRunMatching == call.op = "run_matching"

\* what run returns for the same events, filter and registry
AllVerdicts == Run(detections, call.events, call.rule_ids).results

\* the positions of a sequence of verdicts holding one with matched == true
MatchedAt(all) == {k \in 1..Len(all) : all[k].matched}

\* C11: run_matching returns the subsequence of run's verdicts that have
\* matched == true, in run's order: as many verdicts as run has matches, the
\* n-th of them being run's n-th match.  A matched verdict carrying an
\* extractor error is kept, a verdict whose predicate faulted is not.
C11_MatchedSubsequence ==
    IsRunMatching =>
        LET all == AllVerdicts
            at == MatchedAt(all)
            kept == call.out.results
        IN  /\ call.out.kind = "return"
            /\ Len(kept) = Cardinality(at)
            /\ \A k \in at : kept[Cardinality({j \in at : j <= k})] = all[k]
            /\ \A n \in 1..Len(kept) : kept[n].matched

\* run_matching has returned a matched verdict with an extractor error and
\* dropped a verdict whose predicate faulted
C11_Witness ==
    /\ IsRunMatching
    /\ \E n \in 1..Len(call.out.results) :
            call.out.results[n].error # PyNone
    /\ \E k \in 1..Len(AllVerdicts) :
            ~AllVerdicts[k].matched /\ AllVerdicts[k].error # PyNone
    /\ Len(call.out.results) >= 2

(* ========================== properties of load_rule ==================== *)

\* the call under observation is a load_rule call
IsLoadRule == call.op = "load_rule"

\* the source executes without a fault: it exists, importlib can load it and
\* executing it raises nothing
Executes(file) == file.exists /\ file.loader /\ ~file.exec_fault

\* the executed module defines `rule`
DefinesRule(file) == file.module.rule # Absent

\* load_rule raised an exception of the given type
LoadRaised(type) == call.out.kind = "raise" /\ call.out.exc = type

\* C12: load_rule fails with FileNotFoundError exactly when the source does
\* not exist, with ValueError exactly when the source executes without fault
\* but defines no `rule`, and with ImportError when executing the source
\* raises a fault (or importlib has no loader for it); the three are distinct
\* exception types, and a source that exists, executes without fault and
\* defines `rule` loads successfully.
C12_LoadFailures ==
    IsLoadRule =>
        /\ LoadRaised("FileNotFoundError") <=> ~call.file.exists
        /\ LoadRaised("ValueError") <=>
                Executes(call.file) /\ ~DefinesRule(call.file)
        /\ LoadRaised("ImportError") <=>
                call.file.exists /\ (~call.file.loader \/ call.file.exec_fault)
        /\ call.out.kind = "return" <=>
                Executes(call.file) /\ DefinesRule(call.file)
        /\ call.out.kind \in {"raise", "return"}
        /\ call.out.kind = "raise" =>
                call.out.exc \in {"FileNotFoundError", "ValueError",
                                  "ImportError"}

\* load_rule on a source that executes but defines no `rule` has raised the
\* contract error, with a rule already in the registry
C12_Witness ==
    /\ IsLoadRule
    /\ Executes(call.file) /\ ~DefinesRule(call.file)
    /\ LoadRaised("ValueError")
    /\ call.before # <<>>

(* ========================== properties of the registry ================= *)

\* the registry positions holding a unit with the given id
Holding(dets, id) == {k \in 1..Len(dets) : dets[k].rule_id = id}

\* C13: the registry holds at most one unit per id, every unit's id is the
\* stem of the file it was loaded from, and after a successful load_rule the
\* unit registered under the loaded id is the one built from that load (its
\* path and module), whatever was registered under the id before; the
\* entries with other ids are the same as before the load, and the registry
\* grows by one exactly when the id is new.
C13_LastLoadedWins ==
    /\ \A k \in 1..Len(detections) :
            /\ Holding(detections, detections[k].rule_id) = {k}
            /\ detections[k].rule_id = detections[k].file_path.stem
    /\ (IsLoadRule /\ call.out.kind = "return") =>
            LET id == call.rule_path.stem
            IN  /\ \E k \in Holding(detections, id) :
                        /\ detections[k].file_path = call.rule_path
                        /\ detections[k].rule_func = call.file.module.rule
                        /\ detections[k].title_func = call.file.module.title
                        /\ detections[k].severity_func =
                                call.file.module.severity
                /\ \A j \in 1..Len(call.before) :
                        call.before[j].rule_id # id =>
                            /\ j <= Len(detections)
                            /\ detections[j] = call.before[j]
                /\ Len(detections) = Len(call.before) +
                        (IF Holding(call.before, id) = {} THEN 1 ELSE 0)

\* a successful load_rule has replaced the unit registered under the same
\* id by a different one, next to a unit with another id
C13_Witness ==
    /\ IsLoadRule /\ call.out.kind = "return"
    /\ \E j \in Holding(call.before, call.rule_path.stem) :
            /\ call.before[j].rule_func # call.file.module.rule
            /\ call.before[j].file_path # call.rule_path
    /\ \E j \in 1..Len(call.before) :
            call.before[j].rule_id # call.rule_path.stem

(* ========================== properties of load_rules =================== *)

\* the call under observation is a load_rules call on an existing directory
IsLoadRules == call.op = "load_rules" /\ call.dir.exists

\* the listing positions of the candidates: *.py files whose name does not
\* start with an underscore
Candidates ==
    {k \in 1..Len(call.dir.listing) :
        /\ call.dir.listing[k].suffix = ".py"
        /\ ~StartsWithUnderscore(call.dir.listing[k].name)}

\* a well-formed source: it executes without fault and defines `rule`
WellFormed(file) == Executes(file) /\ DefinesRule(file)

WellFormedAt == {k \in Candidates : WellFormed(call.dir.listing[k].file)}
FailingAt == Candidates \ WellFormedAt

\* the number of positions of S up to k
RankIn(S, k) == Cardinality({j \in S : j <= k})

\* the ids registered in a registry
Ids(dets) == {dets[k].rule_id : k \in 1..Len(dets)}

\* C14: load_rules on an existing directory returns normally whatever the
\* candidates hold; the returned sequence is exactly the well-formed
\* candidates, in listing order, each being the unit now registered under its
\* stem; the reported files are exactly the failing candidates, so every
\* candidate was attempted; and from an empty registry the registry
\* afterwards is exactly the well-formed units.
C14_BatchNeverAborts ==
    IsLoadRules =>
        /\ call.out.kind = "return"
        /\ Len(call.out.loaded) = Cardinality(WellFormedAt)
        /\ \A k \in WellFormedAt :
                LET unit == call.out.loaded[RankIn(WellFormedAt, k)]
                IN  /\ unit.rule_id = call.dir.listing[k].name
                    /\ unit.rule_func = call.dir.listing[k].file.module.rule
                    /\ \E j \in 1..Len(detections) : detections[j] = unit
        /\ Len(call.out.reported) = Cardinality(FailingAt)
        /\ \A k \in FailingAt :
                call.out.reported[RankIn(FailingAt, k)] =
                    call.dir.listing[k].name
        /\ Ids(detections) =
                Ids(call.before) \cup
                {call.dir.listing[k].name : k \in WellFormedAt}
        /\ call.before = <<>> => detections = call.out.loaded

\* load_rules from an empty registry has skipped a failing candidate and
\* loaded a well-formed one listed after it, in a directory that also holds
\* a file whose name starts with an underscore
C14_Witness ==
    /\ IsLoadRules
    /\ call.before = <<>>
    /\ \E k \in FailingAt : \E j \in WellFormedAt : k < j
    /\ \E k \in 1..Len(call.dir.listing) :
            StartsWithUnderscore(call.dir.listing[k].name)
    /\ call.out.loaded # <<>> /\ call.out.reported # <<>>

(* =========================== properties of deep_get ==================== *)

\* the call under observation is a deep_get call
IsDeepGet == call.op = "deep_get"

\* What a node holds under a key: the value of a mapping's key, the element
\* of a sequence at an integer index within its range (negative indices
\* count from the end); null when the key is absent, the index is out of range
\* or not an integer, or the node is neither a mapping nor a sequence.
Child(node, key) ==
    CASE node.t = "dict" ->
            IF key.t = "str" /\ key.v \in DOMAIN node.v
            THEN node.v[key.v] ELSE PyNone
      [] node.t = "list" ->
            IF key.t = "int" /\ key.v < Len(node.v) /\ key.v >= -Len(node.v)
            THEN node.v[((key.v + Len(node.v)) % Len(node.v)) + 1]
            ELSE PyNone
      [] OTHER -> PyNone

\* the node found after each number of keys of the path, null once anything
\* on the way is missing
NodeAfter(event, keys) ==
    LET node[n \in 0..Len(keys)] ==
            IF n = 0 THEN event ELSE Child(node[n - 1], keys[n])
    IN  node

\* the value found at the path
Resolved(event, keys) == NodeAfter(event, keys)[Len(keys)]

\* C15: deep_get never raises; it returns default when the value found at
\* the path is null, which includes an absent intermediate node, a node that
\* is neither a mapping nor a sequence, and a sequence indexed out of range
\* or by a non-integer; otherwise it returns the value found, falsy or not.
C15_DeepGetFailsSoft ==
    IsDeepGet =>
        /\ call.out.kind = "return"
        /\ call.out.val =
                IF Resolved(call.event, call.keys) = PyNone
                THEN call.default
                ELSE Resolved(call.event, call.keys)

\* deep_get with a default given has returned a falsy value found under a
\* key of a mapping inside a sequence
C15_Witness ==
    /\ IsDeepGet
    /\ Len(call.keys) = 2
    /\ call.keys[1].t = "int" /\ call.keys[2].t = "str"
    /\ call.default = PyStr("dflt")
    /\ call.out.kind = "return"
    /\ call.out.val \in {PyInt(0), PyStr(""), PyBool(FALSE)}

\* C16: deep_get composes: for every split of the key path into a prefix
\* and a suffix, deep_get on the result of deep_get on the prefix, with the
\* suffix, equals deep_get with the whole path (default unspecified).
C16_DeepGetComposes ==
    IsDeepGet =>
        \A n \in 0..Len(call.keys) :
            LET prefix == SubSeq(call.keys, 1, n)
                suffix == SubSeq(call.keys, n + 1, Len(call.keys))
                inner == DeepGet(call.event, prefix, PyNone)
            IN  /\ inner.kind = "return"
                /\ DeepGet(inner.val, suffix, PyNone) =
                        DeepGet(call.event, call.keys, PyNone)

\* deep_get on a two-key path has found a value, so the split in the middle
\* goes through a node that is not null
C16_Witness ==
    /\ IsDeepGet
    /\ Len(call.keys) = 2
    /\ call.default = PyNone
    /\ call.out.kind = "return"
    /\ call.out.val # PyNone
    /\ DeepGet(call.event, SubSeq(call.keys, 1, 1), PyNone).val.t = "list"

(* ========================== properties of deep_walk ==================== *)

\* the call under observation is a deep_walk call
IsDeepWalk == call.op = "deep_walk"

\* no node: the path has left the mappings
NoNode == [t |-> "none", v |-> ""]

\* the node reached after each number of keys while every node on the way is
\* a mapping holding the next key
ReachedAfter(event, keys) ==
    LET node[n \in 0..Len(keys)] ==
            IF n = 0 THEN event
            ELSE IF node[n - 1].t = "dict" /\ KeyIn(keys[n], node[n - 1])
            THEN node[n - 1].v[keys[n].v]
            ELSE NoNode
    IN  node

RECURSIVE Concat(_)
\* the concatenation of a sequence of sequences, in order
Concat(parts) ==
    IF parts = <<>> THEN <<>> ELSE parts[1] \o Concat(Tail(parts))

\* the remaining path finds nothing on an element: the element is not
\* traversable, or lacks the next key, or holds null under the last key
FindsNothing(x, rest) ==
    \/ x.t \notin {"dict", "list"}
    \/ x.t = "dict" /\ ~KeyIn(rest[1], x)
    \/ x.t = "dict" /\ Len(rest) = 1 /\ KeyIn(rest[1], x)
            /\ x.v[rest[1].v] = PyNone

\* the event and the path of the documented example
ExampleEvent ==
    PyMap("records" :> PyList(<<PyMap("id" :> PyInt(1)),
                                PyMap("id" :> PyInt(2))>>))
ExamplePath == <<PyStr("records"), PyStr("id")>>

\* C17: when the path of a deep_walk for values meets a sequence with keys
\* left, the result is the concatenation, in element order, of what the
\* remaining path yields on each element (a nested sequence fans out again),
\* an element on which the remaining path finds nothing contributing
\* nothing; on {"records": [{"id": 1}, {"id": 2}]} with the path
\* "records", "id" the result is [1, 2].
C17_FanOutInOrder ==
    /\ DeepWalk(ExampleEvent, ExamplePath, PyNone, "value").val =
            PyList(<<PyInt(1), PyInt(2)>>)
    /\ (IsDeepWalk /\ call.return_val = "value") =>
            \A n \in 0..(Len(call.keys) - 1) :
                LET node == ReachedAfter(call.event, call.keys)[n]
                    rest == SubSeq(call.keys, n + 1, Len(call.keys))
                    part(x) == DeepWalk(x, rest, PyNone, "value").val.v
                IN  node.t = "list" =>
                        LET parts == [k \in 1..Len(node.v) |-> part(node.v[k])]
                        IN  /\ IF Concat(parts) # <<>>
                               THEN call.out.val = PyList(Concat(parts))
                               ELSE call.out.val \in
                                        {call.default, PyList(<<>>)}
                            /\ \A k \in 1..Len(node.v) :
                                    FindsNothing(node.v[k], rest) =>
                                        parts[k] = <<>>

\* deep_walk has returned [1, 2] for the documented example
C17_Witness ==
    /\ IsDeepWalk
    /\ call.event = ExampleEvent /\ call.keys = ExamplePath
    /\ call.return_val = "value"
    /\ call.out.val = PyList(<<PyInt(1), PyInt(2)>>)

\* deep_walk has fanned out over a sequence nested in a sequence, one of
\* whose elements contributed nothing
C17_NestedWitness ==
    /\ IsDeepWalk /\ call.return_val = "value"
    /\ Len(call.keys) = 1
    /\ call.event.t = "list" /\ Len(call.event.v) = 2
    /\ call.event.v[1].t = "list" /\ Len(call.event.v[1].v) = 2
    /\ FindsNothing(call.event.v[1].v[1], call.keys)
    /\ call.out.val = PyList(<<PyInt(2), PyInt(2)>>)

\* what _walk collects for the call: the overall result sequence
Aggregate == Walk(call.event, call.keys, 1, call.return_val)

\* C18 as stated: deep_walk returns default whenever the overall result
\* sequence is empty, for every default including None, and the result
\* sequence whenever it is not empty.
C18_DefaultWhenEmpty ==
    IsDeepWalk =>
        /\ Aggregate = <<>> => call.out.val = call.default
        /\ Aggregate # <<>> => call.out.val = PyList(Aggregate)

\* C18, amended: when the overall result sequence is empty deep_walk
\* returns default if a default other than None was given and an empty list
\* if default is None or unspecified; when the result sequence is not empty
\* it returns the result sequence and not default.
C18_DefaultOrEmptyList ==
    IsDeepWalk =>
        /\ call.out.kind = "return"
        /\ (Aggregate = <<>> /\ call.default # PyNone) =>
                call.out.val = call.default
        /\ (Aggregate = <<>> /\ call.default = PyNone) =>
                call.out.val = PyList(<<>>)
        /\ Aggregate # <<>> =>
                call.out.val = PyList(Aggregate) /\ call.out.val # call.default

\* deep_walk on {"records": []} with the path "records", "id" and a default
\* has returned the default
C18_Witness ==
    /\ IsDeepWalk
    /\ call.event = PyMap("records" :> PyList(<<>>))
    /\ call.keys = ExamplePath
    /\ call.default = PyStr("dflt")
    /\ call.out.val = PyStr("dflt")

(* ======================== properties of pattern_match ================== *)

\* A pattern matches a text when the text can be cut into one piece per
\* pattern character: any piece for `*`, one character for `?`, the very
\* character (case included) for any other pattern character.
Matches(text, pattern) ==
    \E cut \in [0..Len(pattern) -> 0..Len(text)] :
        /\ cut[0] = 0
        /\ cut[Len(pattern)] = Len(text)
        /\ \A j \in 1..Len(pattern) :
                IF pattern[j] = "*" THEN cut[j] >= cut[j - 1]
                ELSE /\ cut[j] = cut[j - 1] + 1
                     /\ pattern[j] = "?" \/ text[cut[j]] = pattern[j]

\* the characters of a text that is not null
TextOf(string) == IF string.t = "int" THEN <<"1">> ELSE string.v

\* C19: pattern_match_list is true iff some pattern of the list matches the
\* text under pattern_match, hence false for an empty list; pattern_match
\* matches `*` and `?` wildcards against the whole text, case-sensitively;
\* both are false for a null text, whatever the patterns.
C19_MatchAny ==
    /\ call.op = "pattern_match_list" =>
            /\ call.out <=>
                    \E k \in 1..Len(call.patterns) :
                        PatternMatch(call.string, call.patterns[k])
            /\ call.out <=>
                    /\ call.string # PyNone
                    /\ \E k \in 1..Len(call.patterns) :
                            Matches(TextOf(call.string), call.patterns[k])
            /\ call.patterns = <<>> => ~call.out
            /\ call.string = PyNone => ~call.out
    /\ call.op = "pattern_match" =>
            call.out <=>
                /\ call.string # PyNone
                /\ Matches(TextOf(call.string), call.pattern)

\* pattern_match_list is true for a text that the first pattern of the list
\* misses by case only and the second matches with a wildcard
C19_Witness ==
    /\ call.op = "pattern_match_list"
    /\ call.string = PyStr(<<"A", "b">>)
    /\ call.patterns = << <<"a", "?">>, <<"*", "b">> >>
    /\ call.out
    /\ ~PatternMatch(call.string, call.patterns[1])

\* pattern_match_list is false for a null text and a list holding `*`
C19_NullWitness ==
    /\ call.op = "pattern_match_list"
    /\ call.string = PyNone
    /\ call.patterns = << <<"*">> >>
    /\ ~call.out

(* =========================== properties of to_dict ===================== *)

\* the call under observation is a to_dict call
IsToDict == call.op = "to_dict"

\* the exported metadata fields that are optional in the dataclass
OptionalMetadata ==
    {"title", "description", "reference", "runbook", "alert_context",
     "dedup_string"}

\* C20 as stated: to_dict of a verdict with matched == false has null under
\* title, severity, description, reference, runbook, alert_context and
\* dedup_string.
C20_UnmatchedAllNull ==
    (IsToDict /\ ~call.verdict.matched) =>
        \A f \in OptionalMetadata \cup {"severity"} : call.out[f] = PyNone

\* C20, amended: to_dict of a verdict with matched == false has null under
\* title, description, reference, runbook, alert_context and dedup_string,
\* and the dataclass default "MEDIUM" under severity; no metadata field is
\* an empty string.
C20_UnmatchedNullButSeverity ==
    (IsToDict /\ ~call.verdict.matched) =>
        /\ \A f \in OptionalMetadata : call.out[f] = PyNone
        /\ call.out.severity = PyStr("MEDIUM")
        /\ \A f \in OptionalMetadata \cup {"severity"} :
                call.out[f] # PyStr("")
        /\ call.out.matched = FALSE

\* to_dict has exported a verdict that did not match, of a rule that defines
\* a title and a severity extractor
C20_Witness ==
    /\ IsToDict
    /\ ~call.verdict.matched
    /\ call.verdict.error = PyNone
    /\ call.detection.title_func # Absent
    /\ call.detection.severity_func # Absent
    /\ call.out.severity = PyStr("MEDIUM")
    /\ call.out.title = PyNone

(* ======================== properties of aws_arn_parse ================== *)

\* the call under observation is an aws_arn_parse call
IsArnParse == call.op = "aws_arn_parse"

\* the number of colon-delimited segments of an identifier
Segments(chars) == Cardinality({i \in 1..Len(chars) : chars[i] = ":"}) + 1

\* the identifier is rejected: empty, not starting with "arn:", or with
\* fewer than six segments
Rejected(arn) ==
    \/ arn = PyNone
    \/ arn.v = <<>>
    \/ Len(arn.v) < 4
    \/ <<arn.v[1], arn.v[2], arn.v[3], arn.v[4]>> # <<"a", "r", "n", ":">>
    \/ Segments(arn.v) < 6

\* C21: aws_arn_parse returns null iff the identifier is empty, does not
\* start with "arn:" or has fewer than six colon-delimited segments;
\* otherwise "arn:" + partition + ":" + service + ":" + region + ":" +
\* account + ":" + resource is the identifier again, and none of the first
\* four fields holds a colon (further colons stay in resource).
C21_ArnRoundTrip ==
    IsArnParse =>
        /\ call.out = PyNone <=> Rejected(call.arn)
        /\ call.out # PyNone =>
                LET f == call.out.v
                    colon == <<":">>
                IN  /\ <<"a", "r", "n", ":">> \o f.partition \o colon
                            \o f.service \o colon \o f.region \o colon
                            \o f.account \o colon \o f.resource = call.arn.v
                    /\ \A name \in {"partition", "service", "region",
                                     "account"} :
                            \A i \in 1..Len(f[name]) : f[name][i] # ":"

\* aws_arn_parse has parsed an identifier with more than five colons, the
\* sixth staying inside resource
C21_Witness ==
    /\ IsArnParse
    /\ call.out # PyNone
    /\ Segments(call.arn.v) > 6
    /\ \E i \in 1..Len(call.out.v.resource) : call.out.v.resource[i] = ":"
    /\ call.out.v.partition # <<>>

(* ======================= properties of the AWS rules =================== *)

\* the call under observation is run_detection on the rule with this id
IsRuleRun(id) == call.op = "run_detection" /\ call.detection.rule_id = id

\* the value an event holds at a path of keys, null when there is none
At(event, keys) == Resolved(event, [k \in 1..Len(keys) |-> PyStr(keys[k])])

\* C22: run_detection on aws_root_login matches exactly the events whose
\* eventName is "ConsoleLogin" and whose userIdentity.type is "Root"; on a
\* match the title contains the event's sourceIPAddress, and severity is
\* "MEDIUM" when additionalEventData.MFAUsed is "Yes" and "HIGH" otherwise.
C22_RootLogin ==
    IsRuleRun("aws_root_login") =>
        LET event == call.event
            result == call.out.result
        IN  /\ call.out.kind = "return"
            /\ result.matched <=>
                    /\ At(event, <<"eventName">>) = Lit("ConsoleLogin")
                    /\ At(event, <<"userIdentity", "type">>) = Lit("Root")
            /\ result.matched =>
                    /\ result.error = PyNone
                    /\ At(event, <<"sourceIPAddress">>) # PyNone =>
                            Contains(result.title.v,
                                     At(event, <<"sourceIPAddress">>).v)
                    /\ result.severity =
                            IF At(event, <<"additionalEventData", "MFAUsed">>)
                                    = Lit("Yes")
                            THEN Lit("MEDIUM") ELSE Lit("HIGH")

\* aws_root_login has matched a root console login with MFA from a known
\* address: the title holds the address and severity is "MEDIUM"
C22_Witness ==
    /\ IsRuleRun("aws_root_login")
    /\ call.out.result.matched
    /\ At(call.event, <<"additionalEventData", "MFAUsed">>) = Lit("Yes")
    /\ call.out.result.severity = Lit("MEDIUM")
    /\ Contains(call.out.result.title.v, <<"203.0.113.50">>)

\* the user an IAM user ARN identifies: what follows "user/"
ArnUserName(arn) == Tail(arn.v)

\* the key is requested for a user other than the actor: a user name is
\* given and it is not the one the actor's ARN identifies
ForAnotherUser(event) ==
    LET arn == At(event, <<"userIdentity", "arn">>)
        user == At(event, <<"requestParameters", "userName">>)
    IN  /\ user # PyNone
        /\ user.v # <<>>
        /\ arn = PyNone \/ user.v # ArnUserName(arn)

\* C23: run_detection on aws_iam_access_key_created matches exactly the
\* CreateAccessKey events with no errorCode; on a match severity is "HIGH"
\* when requestParameters.userName names a user other than the actor of
\* userIdentity.arn and "MEDIUM" when it is absent, empty or names the actor.
C23_AccessKeySeverity ==
    IsRuleRun("aws_iam_access_key_created") =>
        LET event == call.event
            result == call.out.result
        IN  /\ call.out.kind = "return"
            /\ result.matched <=>
                    /\ At(event, <<"eventName">>) = Lit("CreateAccessKey")
                    /\ At(event, <<"errorCode">>) = PyNone
            /\ result.matched =>
                    result.severity =
                        IF ForAnotherUser(event)
                        THEN Lit("HIGH") ELSE Lit("MEDIUM")

\* the match test of C23 alone, which the rule meets
AccessKeyMatch ==
    IsRuleRun("aws_iam_access_key_created") =>
        call.out.result.matched <=>
            /\ At(call.event, <<"eventName">>) = Lit("CreateAccessKey")
            /\ At(call.event, <<"errorCode">>) = PyNone

(* ========================= properties of log_types ===================== *)

\* log-type declarations a unit may carry
LogTypeTags ==
    << PyList(<<>>), PyList(<<"AWS.CloudTrail">>), PyList(<<"Custom.Sysmon">>) >>

\* the registry with other log_types: unit k declares the tag k + shift,
\* counted round LogTypeTags, and nothing else differs
Retagged(dets, shift) ==
    [k \in 1..Len(dets) |->
        [dets[k] EXCEPT !.log_types = LogTypeTags[((k + shift) % 3) + 1]]]

\* C24: the engine does not filter on log_types: on a registry that differs
\* from the one at hand in the units' log_types only, run returns the same
\* verdicts in the same order for the same events and filter, and
\* run_detection the same verdict for the same unit and event.
C24_LogTypesIgnored ==
    /\ IsRun =>
            \A shift \in 0..2 :
                Run(Retagged(detections, shift), call.events, call.rule_ids)
                    = call.out
    /\ IsEval =>
            \A shift \in 0..2 :
                RunDetection([call.detection EXCEPT
                                 !.log_types = LogTypeTags[shift + 1]],
                             call.event).result
                    = call.out.result

\* run has returned verdicts on a registry holding a unit that declares
\* log types and one that declares none
C24_Witness ==
    /\ IsRun
    /\ call.out.results # <<>>
    /\ \E j, k \in 1..Len(detections) :
            /\ detections[j].log_types.v # <<>>
            /\ detections[k].log_types.v = <<>>
            /\ \E n \in 1..Len(call.out.results) :
                    call.out.results[n].rule_id = detections[k].rule_id

(* ================= properties of the per-pair evaluation =============== *)

IsStep == call.op = "evaluation"

\* how often name occurs in calls
Count(calls, name) == Cardinality({n \in 1..Len(calls) : calls[n] = name})

Extractors == {ExtractorOrder[i].attr : i \in 1..Len(ExtractorOrder)}

\* the phases in their order
PhaseRank ==
    [pending |-> 1] @@ ("predicate-evaluated" :> 2) @@
    ("extractors-evaluated" :> 3) @@ ("verdict-emitted" :> 4)

\* the rule function returned a truthy value for the pair
PredicateTruthy ==
    LET o == Call(call.detection.rule_func, "rule", call.event)
    IN  o.exc = NoExc /\ Truthy(o.val)

\* the invocations made so far, in any state of an evaluation
InvokedOnce ==
    IsStep =>
        LET calls == call.st.calls
        IN  /\ Count(calls, "rule") = (IF call.phase = "pending" THEN 0 ELSE 1)
            /\ \A name \in Extractors : Count(calls, name) <= 1
            /\ (\E name \in Extractors : Count(calls, name) > 0) =>
                    calls[1] = "rule" /\ PredicateTruthy
            /\ call.phase = "extractors-evaluated" => PredicateTruthy

\* a step of an evaluation moves forward through the phases, and invokes
\* nothing once a function has raised
ForwardOnly ==
    (IsStep /\ call'.op = "evaluation") =>
        /\ call'.detection = call.detection /\ call'.event = call.event
        /\ PhaseRank[call'.phase] >= PhaseRank[call.phase]
        /\ call.phase = "pending" => call'.phase = "predicate-evaluated"
        /\ call.st.exc # NoExc =>
                call'.st.calls = call.st.calls /\ call'.phase = "verdict-emitted"

\* an evaluation is left only with its verdict emitted
LeftWithVerdict ==
    (IsStep /\ call'.op # "evaluation") => call.phase = "verdict-emitted"

\* the verdict the steps emit is the one run_detection returns
StepsAgree ==
    (IsStep /\ call.phase = "verdict-emitted") =>
        LET o == RunDetection(call.detection, call.event)
        IN  call.st.result = o.result /\ call.st.calls = o.calls

IsConc == call.op = "concurrent"

\* caller c is inside run
Calling(c) == IsConc /\ call.runs[c] # NotCalling

\* a run call that has returned holds the verdicts the call returns when it
\* is executed alone on the registry
ReturnsAsAlone ==
    \A c \in Callers :
        (Calling(c) /\ call.runs[c].pc # "loop") =>
            LET r == call.runs[c]
                alone == Run(detections, r.events, r.rule_ids)
            IN  /\ r.pc = "done"
                /\ alone.kind = "return"
                /\ r.results = alone.results

\* a step taken while a run call is under way leaves the registry as it is
\* and touches the local variables of one call only
NoSharedWrite ==
    (IsConc /\ call'.op = "concurrent") =>
        /\ detections' = detections
        /\ \A c, d \in Callers :
                (c # d /\ call'.runs[c] # call.runs[c]) =>
                    call'.runs[d] = call.runs[d]

\* C26: run calls interleaved in any way over a fully loaded registry write no
\* shared state, and each returns the verdict sequence it returns when
\* executed alone.
C26_ConcurrentRuns ==
    /\ []ReturnsAsAlone
    /\ [][NoSharedWrite /\ (IsConc => detections' = detections)]_vars

\* two run calls under way at once, each with verdicts collected and more
\* turns to take, on a registry of more than one unit
C26_Witness ==
    /\ IsConc
    /\ Len(detections) > 1
    /\ \A c \in Callers :
        /\ Calling(c)
        /\ call.runs[c].pc = "loop"
        /\ call.runs[c].results # <<>>
        /\ call.runs[c].i <= Len(call.runs[c].evs)
    /\ call.runs["c1"].events # call.runs["c2"].events

\* a run call has returned its verdicts while another is still in its loops
C26_DoneWitness ==
    /\ IsConc
    /\ \E c, d \in Callers :
        /\ Calling(c) /\ call.runs[c].pc = "done"
        /\ Len(call.runs[c].results) > 1
        /\ Calling(d) /\ call.runs[d].pc = "loop"
        /\ call.runs[d].results # <<>>
(* ======================= properties of the schemas ===================== *)

IsAddCustomSchema == call.op = "add_custom_schema"

\* the messages of a list, whatever their order
Messages(errors) == {errors[n] : n \in 1..Len(errors)}

\* the messages validation against schema owes for event: one per missing
\* required field and one per field held with a value of the wrong type
Owed(schema, event) ==
    {MissingError(name) : name \in schema.required_fields \ DOMAIN event} \cup
    {WrongTypeError(schema.fields[n].name, schema.fields[n].type,
                    event[schema.fields[n].name]) :
        n \in {m \in 1..Len(schema.fields) :
                /\ schema.fields[m].name \in DOMAIN event
                /\ ~CheckType(event[schema.fields[m].name],
                              schema.fields[m].type)}}

\* C27: after add_custom_schema has returned log type T, get_schema(T) yields
\* the schema just added and validate_event(event, T) reports the event's
\* missing required fields and wrong-typed fields against it.
C27_CustomSchemaByReturnedType ==
    IsAddCustomSchema =>
        LET T == call.out
        IN  /\ get_schema(SCHEMAS, T) = call.schema
            /\ \A event \in SchemaEvents :
                \A order \in Orders(call.schema.required_fields) :
                    Messages(validate_event(SCHEMAS, event, T, order))
                        = Owed(call.schema, event)

\* the schema just added is the one held under the name it was added with,
\* and validation by that name reports what the schema owes
CustomSchemaByName ==
    IsAddCustomSchema =>
        LET key == PyStr(call.log_type_name)
        IN  /\ get_schema(SCHEMAS, key) = call.schema
            /\ \A event \in SchemaEvents :
                \A order \in Orders(call.schema.required_fields) :
                    Messages(validate_event(SCHEMAS, event, key, order))
                        = Owed(call.schema, event)

\* a log type without a schema validates every event as correct
NoSchemaNoErrors ==
    (call.op = "validate_event" /\ get_schema(SCHEMAS, call.log_type) = PyNone)
        => call.out = <<>>

\* the log type add_custom_schema returns never has a schema
ReturnedTypeHasNoSchema ==
    IsAddCustomSchema => get_schema(SCHEMAS, call.out) = PyNone
(* ======================= properties of a failed load =================== *)

\* C28: a load_rule call that fails leaves the registry unchanged: no entry
\* is added, removed or replaced, and a unit registered before under the same
\* id is still registered and gives the same verdicts as before.
C28_FailedLoadKeepsRegistry ==
    (IsLoadRule /\ call.out.kind = "raise") =>
        /\ detections = call.before
        /\ \A k \in Holding(call.before, call.rule_path.stem) :
            /\ k \in Holding(detections, call.rule_path.stem)
            /\ \A event \in Events :
                    RunDetection(detections[k], event)
                        = RunDetection(call.before[k], event)

\* a reload of a registered id has failed, the registry holding another unit
\* as well
C28_Witness ==
    /\ IsLoadRule
    /\ call.out.kind = "raise"
    /\ Holding(call.before, call.rule_path.stem) # {}
    /\ Len(call.before) > 1
    /\ Executes(call.file) /\ ~DefinesRule(call.file)
(* ===================== properties of the error field =================== *)

\* an extractor raised during the evaluation: the predicate matched, so the
\* extractors were invoked, and one of those the unit defines raises
ExtractorFaulted == PredicateMatches /\ \E i \in 1..7 : FirstFault(i)

\* C29: in every verdict of run_detection error is set exactly when the
\* predicate or an extractor raised during the evaluation; with matched false
\* it was the predicate, with matched true an extractor, and then the fields
\* of the faulting extractor and of every extractor after it hold their
\* initial values.
C29_ErrorIffFault ==
    (IsEval /\ call.out.kind = "return") =>
        LET set == Verdict.error # PyNone
        IN  /\ set <=> (PredicateFaults \/ ExtractorFaulted)
            /\ (set /\ ~Verdict.matched) => PredicateFaults
            /\ (set /\ Verdict.matched) =>
                    /\ ~PredicateFaults /\ ExtractorFaulted
                    /\ \A j \in LastInvoked..7 :
                            Verdict[ResultField(ClaimOrder[j])]
                                = InitialValue(ClaimOrder[j])

\* an extractor in the middle of the order raised: earlier fields are
\* populated, and later extractors are defined and would have returned
C29_Witness ==
    /\ IsEval
    /\ PredicateMatches
    /\ FirstFault(3)
    /\ Verdict.error # PyNone
    /\ Verdict.title # PyNone
    /\ \A j \in 4..7 : Defined(ClaimOrder[j]) /\ ~Faults(ClaimOrder[j])
(* ======================== properties of a reload ======================= *)

\* the ids of a registry in its iteration order
IdOrder(dets) == [k \in 1..Len(dets) |-> dets[k].rule_id]

\* the units a run call on the registry evaluates, in iteration order
Selected ==
    SelectSeq(detections,
              LAMBDA d : /\ Truthy(d.enabled)
                         /\ Truthy(call.rule_ids) =>
                                InList(d.rule_id, call.rule_ids.v))

\* C30: reloading a source whose id is registered replaces the unit and keeps
\* the id at its position in the iteration order: a load never moves an id
\* that is registered, so an id stays where its first load put it, and every
\* run gives its verdicts for each event in that order.
C30_ReloadKeepsPosition ==
    /\ IsLoadRule =>
            /\ SubSeq(IdOrder(detections), 1, Len(call.before))
                    = IdOrder(call.before)
            /\ (call.out.kind = "return" /\
                Holding(call.before, call.rule_path.stem) # {}) =>
                    /\ Holding(detections, call.rule_path.stem)
                            = Holding(call.before, call.rule_path.stem)
                    /\ \A k \in Holding(detections, call.rule_path.stem) :
                            /\ detections[k].file_path = call.rule_path
                            /\ detections[k].rule_func = call.file.module.rule
    /\ IsRun =>
            LET sel == Selected
                m == Len(sel)
            IN  /\ Len(RunResults) = m * Len(RunEvents)
                /\ \A k \in 1..Len(RunResults) :
                        RunResults[k].rule_id = sel[((k - 1) % m) + 1].rule_id

\* the id at the first position has been reloaded from another file with
\* another rule, with a unit registered after it
C30_Witness ==
    /\ IsLoadRule /\ call.out.kind = "return"
    /\ Len(call.before) > 1
    /\ call.before[1].rule_id = call.rule_path.stem
    /\ call.before[1].file_path # call.rule_path
    /\ call.before[1].rule_func # call.file.module.rule
    /\ detections[1].file_path = call.rule_path
====
